---- MODULE Spec2Model ----
(***************************************************************************)
(* A state-machine model of the voice-agent platform's HTTP API            *)
(* (apps/api): the agent_configs and telephony_configs tables reached      *)
(* through db.ts, the remote SIP control plane reached through             *)
(* sip-service.ts, the in-memory OAuth state map, and the route handlers   *)
(* of the Express server.  A handler is split into one action per awaited  *)
(* call, so that two requests interleave exactly where the event loop can  *)
(* interleave them.                                                        *)
(***************************************************************************)
EXTENDS Integers, Sequences, FiniteSets, TLC

\* ------------------------------------------------------------------ bounds
\* Number of agent ids (uuids) that POST /api/agents can hand out.
MaxAgents == 1
\* Number of share codes generateShareCode can hand out.
MaxCodes == 2
\* Number of telephony row ids the store can hand out.
MaxTel == 2
\* Number of state tokens GET /api/oauth/google can hand out.
MaxStates == 2
\* Last instant of the clock.
MaxTime == 2
\* Number of access tokens the identity provider can hand out.
MaxTokens == 2
\* Largest expires_in the identity provider answers with, in clock steps.
MaxExpiresIn == 1
\* Number of runs of setupTelephonyForAgent the SIP control plane hands out
\* resource ids to.
MaxSetups == 2
\* Number of document ids the store can hand out.
MaxDocs == 2
\* Number of outbound calls the vendor can be asked to place.
MaxCalls == 2
\* Number of files the upload directory can hold.
MaxFiles == 3

\* ----------------------------------------------------------- value spaces
Procs == {"r1", "r2"}
Users == {"u1", "u2"}
NoUser == "none"
Undef == "undef"
NoCode == 0
AgentIds == 1..MaxAgents
\* The ids a request can name: every id the store hands out, and 0, a uuid
\* that names no row.
ReqAgentIds == 0..MaxAgents
Codes == 1..MaxCodes
StateTokens == 1..MaxStates
\* The x-api-key values a request can carry, and Undef for no header.
ApiKeys == {"k1", "k2", Undef}
\* The :provider values a request can name.
Providers == {"google", "other"}
\* Digits of a subscriber number ("2247790694").
PhoneLen == 10
\* The digits the numbers are written with.
Digits == {"0", "1", "9"}
\* The characters of /[\s\-\(\)]/.
Separators == {" ", "-", "(", ")"}
\* The forms a number X is written in: +91X, 91X, 0X, X.
Forms == {"+91X", "91X", "0X", "X"}
\* Lifetime of a state token: 10 * 60 * 1000 ms, in clock steps of 10 minutes.
StateTtl == 1

VARIABLES
  agents,      \* table agent_configs: id -> row
  nextAgent,   \* next uuid the store generates for an agent row
  nextCode,    \* next value generateShareCode returns
  issuedTo,    \* history: code -> agent whose row has held it (0: none)
  revoked,     \* history: codes held by an agent when is_public=false was written
  madePrivate, \* history: agents whose row an update with isPublic=false has written
  procs,       \* in-flight HTTP requests: slot -> request, position and locals
  tel,         \* table telephony_configs: id -> row
  nextTel,     \* next uuid the store generates for a telephony row
  sip,         \* remote SIP control plane: the live resources, <<n, kind>>
  nextSip,     \* number n of the next setup run that gets ids handed out
  oauthStates, \* the in-memory map oauthStates: state -> {userId, expiresAt}
  nextState,   \* next value uuidv4 returns for a state token
  now,         \* Date.now()
  conns,       \* table oauth_connections (provider google): user -> row
  nextToken,   \* next access token the identity provider hands out
  accepted,    \* history: state -> number of callbacks that passed its check
  presented,   \* history: states some callback has carried
  env,         \* process.env: LIVEKIT_API_SECRET, and whether Google is set up
  number,      \* a subscriber number X, a sequence of digits
  normal,      \* written form of X -> what normalizePhone makes of it
  docs,        \* table knowledge_base_documents: id -> row
  nextDoc,     \* next uuid the store generates for a document row
  pipeline,    \* retrieval backend: files in the agents' pipelines, <<agent, doc>>
  calls,       \* number of outbound calls the vendor has been asked to place
  rooms,       \* real-time platform: the rooms that exist
  tmp,         \* upload directory: the temporary files multer has written
  sess,        \* one voice session of the agent worker
  reqBody,     \* the body of one POST /api/agents request
  resBody      \* the answer to that request

agentVars == <<agents, nextAgent, nextCode, issuedTo, revoked, madePrivate>>
telVars == <<tel, nextTel, sip, nextSip>>
oauthVars == <<oauthStates, nextState, now, conns, nextToken, accepted,
               presented, env>>
phoneVars == <<number, normal>>
kbVars == <<docs, nextDoc, pipeline>>
sideVars == <<rooms, tmp>>
extVars == <<kbVars, calls, sess, reqBody, resBody, sideVars>>
vars == <<agents, nextAgent, nextCode, issuedTo, revoked, madePrivate, procs,
          tel, nextTel, sip, nextSip,
          oauthStates, nextState, now, conns, nextToken, accepted, presented, env,
          number, normal, docs, nextDoc, pipeline, calls, sess, reqBody, resBody,
          rooms, tmp>>

IdleProc ==
  [pc |-> "idle", route |-> "none", user |-> NoUser, agent |-> 0,
   isPublic |-> Undef, code |-> NoCode, exShare |-> NoCode, status |-> 0,
   valid |-> TRUE, phone |-> "none", cfg |-> 0, ids |-> 0, log |-> <<>>,
   state |-> 0, hasCode |-> FALSE, hasError |-> FALSE, apiKey |-> Undef,
   provider |-> "google", owner |-> NoUser, at |-> 0, rt |-> 0, expiresIn |-> 0,
   mail |-> FALSE, body |-> "none", failed |-> FALSE, doc |-> 0,
   hits |-> {}, room |-> 0, file |-> 0]

\* A request record as it enters a route.
Request(route, user, agent, isPublic, code) ==
  [IdleProc EXCEPT !.route = route, !.user = user, !.agent = agent,
                   !.isPublic = isPublic, !.code = code]

\* res.status(s).json(..): the handler is finished; what stays is the request
\* it answered, the status and the body it sent, and what the handler had
\* logged on its way (the remote deletions it attempted, and whether a call
\* to a third party failed).
Respond(r, s) ==
  [IdleProc EXCEPT !.pc = "done", !.route = r.route, !.user = r.user,
                   !.agent = r.agent, !.isPublic = r.isPublic,
                   !.code = r.code, !.valid = r.valid, !.log = r.log,
                   !.state = r.state, !.hasCode = r.hasCode,
                   !.hasError = r.hasError, !.apiKey = r.apiKey,
                   !.provider = r.provider, !.body = r.body, !.status = s,
                   !.failed = r.failed, !.doc = r.doc, !.hits = r.hits,
                   !.room = r.room, !.file = r.file]

\* ------------------------------------------------------------- middleware
\* authenticate: 401 when the x-user-id header is missing.
authenticate(user) == user # NoUser

\* validate(schema): 400 when the body does not parse; r.valid tells whether
\* it parses.  Routes without a body schema take every request as valid.
validate(r) == r.valid

\* ---------------------------------------------------------------- db layer
\* db.getAgentConfig: the row, or null when .single() finds none.
HasAgent(a) == a \in DOMAIN agents

\* db.createAgentConfig: the inserted row.
createAgentConfig(userId, isPublic, fresh) ==
  [user_id |-> userId, is_public |-> isPublic,
   share_code |-> IF isPublic THEN fresh ELSE NoCode]

\* The share-code rule without its else-if: isPublic=false leaves the code.
UpdateShareCode_keeps(isPublic, existingShare, fresh) ==
  IF isPublic = "true" /\ existingShare = NoCode THEN fresh ELSE existingShare

\* db.updateAgentConfig, the share-code rule between its read and its write.
UpdateShareCode(isPublic, existingShare, fresh) ==
  IF isPublic = "true" /\ existingShare = NoCode THEN fresh
  ELSE IF isPublic = "false" THEN NoCode
  ELSE existingShare

\* db.updateAgentConfig, the row it writes: is_public only when the body holds
\* it, share_code always (the other columns are copied from the body and
\* take no part in any decision; they are left out of the row).
UpdatedRow(row, isPublic, shareCode) ==
  [row EXCEPT !.is_public = IF isPublic = Undef THEN @ ELSE (isPublic = "true"),
              !.share_code = shareCode]

\* db.getAgentConfigByShareCode: .eq(share_code).eq(is_public, true).single()
\* yields a row only when exactly one matches.
ShareMatches(c) ==
  {a \in DOMAIN agents : agents[a].share_code = c /\ agents[a].is_public}

getAgentConfigByShareCode(c) ==
  IF Cardinality(ShareMatches(c)) = 1 THEN ShareMatches(c) ELSE {}

\* The environment the server is started in: LIVEKIT_API_SECRET is the
\* configured key or is not set, the Google client is set up or is not.
Envs == [secret : {"k1", Undef}, google : BOOLEAN, perplexity : BOOLEAN]

\* No state token handed out, no connection stored, the clock at its start.
NoOAuth ==
  /\ oauthStates = <<>>
  /\ nextState = 1
  /\ now = 0
  /\ conns = <<>>
  /\ nextToken = 1
  /\ accepted = [s \in StateTokens |-> 0]
  /\ presented = {}
  /\ env = [secret |-> "k1", google |-> TRUE, perplexity |-> TRUE]

\* No number is being normalized.
NoPhone == number = <<>> /\ normal = <<>>

\* No document stored or indexed, no call placed, no voice session, and no
\* create request at hand.
NoExt ==
  /\ docs = <<>>
  /\ nextDoc = 1
  /\ pipeline = {}
  /\ calls = 0
  /\ sess = <<>>
  /\ reqBody = <<>>
  /\ resBody = <<>>
  /\ rooms = {}
  /\ tmp = {}

\* No agent stored, no share code handed out.
NoAgents ==
  /\ agents = <<>>
  /\ nextAgent = 1
  /\ nextCode = 1
  /\ issuedTo = [c \in Codes |-> 0]
  /\ revoked = {}
  /\ madePrivate = {}

\* The agent 1 of u1 is stored and is private.
OneAgent ==
  /\ agents = (1 :> createAgentConfig("u1", FALSE, NoCode))
  /\ nextAgent = 2
  /\ nextCode = 1
  /\ issuedTo = [c \in Codes |-> 0]
  /\ revoked = {}
  /\ madePrivate = {}

\* No telephony row stored, no remote SIP resource.
NoTelephony ==
  /\ tel = <<>>
  /\ nextTel = 1
  /\ sip = {}
  /\ nextSip = 1

\* No request in flight.
NoRequest == procs = [p \in Procs |-> IdleProc]

\* ------------------------------------------------------------------- Init
Init ==
  /\ NoAgents
  /\ NoRequest
  /\ NoTelephony
  /\ NoOAuth
  /\ NoPhone
  /\ NoExt

\* ------------------------------------------------------- agent config routes
\* The guard without its owner comparison.
AgentGuard_anyUser(user, a) ==
  IF ~authenticate(user) THEN 401
  ELSE IF ~HasAgent(a) THEN 404
  ELSE 0

\* The guard every /api/agents/:id route starts with: authenticate, then
\* getAgentConfig, 404 when missing, 403 when owned by someone else.
\* Yields the response status, or 0 when the request passes.
AgentGuard(user, a) ==
  IF ~authenticate(user) THEN 401
  ELSE IF ~HasAgent(a) THEN 404
  ELSE IF agents[a].user_id # user THEN 403
  ELSE 0

\* POST /api/agents
CreateAgent(p) ==
  /\ procs[p].pc = "idle"
  /\ UNCHANGED <<telVars, oauthVars, phoneVars, extVars>>
  /\ \E user \in Users \cup {NoUser}, valid \in BOOLEAN, isPublic \in BOOLEAN :
       LET r == [Request("CreateAgent", user, 0, Undef, NoCode) EXCEPT !.valid = valid] IN
       IF ~authenticate(user) THEN
         /\ procs' = [procs EXCEPT ![p] = Respond(r, 401)]
         /\ UNCHANGED agentVars
       ELSE IF ~validate(r) THEN
         /\ procs' = [procs EXCEPT ![p] = Respond(r, 400)]
         /\ UNCHANGED agentVars
       ELSE
         /\ nextAgent <= MaxAgents
         /\ isPublic => nextCode <= MaxCodes
         /\ agents' = (nextAgent :> createAgentConfig(user, isPublic, nextCode)) @@ agents
         /\ nextAgent' = nextAgent + 1
         /\ nextCode' = IF isPublic THEN nextCode + 1 ELSE nextCode
         /\ issuedTo' = IF isPublic THEN [issuedTo EXCEPT ![nextCode] = nextAgent] ELSE issuedTo
         /\ procs' = [procs EXCEPT ![p] = Respond([r EXCEPT !.agent = nextAgent], 201)]
         /\ UNCHANGED <<revoked, madePrivate>>

\* GET /api/agents/:id
GetAgent(p) ==
  /\ procs[p].pc = "idle"
  /\ UNCHANGED <<telVars, oauthVars, phoneVars, extVars>>
  /\ \E user \in Users \cup {NoUser}, a \in ReqAgentIds :
       LET r == Request("GetAgent", user, a, Undef, NoCode)
           g == AgentGuard(user, a) IN
       /\ procs' = [procs EXCEPT ![p] = Respond(r, IF g # 0 THEN g ELSE 200)]
       /\ UNCHANGED agentVars

\* PUT /api/agents/:id, up to the call of db.updateAgentConfig
PutAgent(p) ==
  /\ procs[p].pc = "idle"
  /\ UNCHANGED <<telVars, oauthVars, phoneVars, extVars>>
  /\ \E user \in Users \cup {NoUser}, a \in ReqAgentIds, valid \in BOOLEAN,
        isPublic \in {"true", "false", Undef} :
       LET r == [Request("PutAgent", user, a, isPublic, NoCode) EXCEPT !.valid = valid]
           g == AgentGuard(user, a) IN
       /\ procs' = [procs EXCEPT ![p] =
            IF ~authenticate(user) THEN Respond(r, 401)
            ELSE IF ~validate(r) THEN Respond(r, 400)
            ELSE IF g # 0 THEN Respond(r, g)
            ELSE [r EXCEPT !.pc = "upd_read"]]
       /\ UNCHANGED agentVars

\* db.updateAgentConfig: const existing = await this.getAgentConfig(id)
UpdateRead(p) ==
  /\ procs[p].pc = "upd_read"
  /\ UNCHANGED <<telVars, oauthVars, phoneVars, extVars>>
  /\ procs' = [procs EXCEPT ![p] =
       IF HasAgent(procs[p].agent)
       THEN [@ EXCEPT !.pc = "upd_write", !.exShare = agents[procs[p].agent].share_code]
       ELSE Respond(@, 200)]
  /\ UNCHANGED agentVars

\* db.updateAgentConfig: the share-code rule, then .update(updateData).eq(id)
UpdateWrite(p) ==
  LET r == procs[p]
      a == r.agent
      gen == r.isPublic = "true" /\ r.exShare = NoCode
      sc == UpdateShareCode(r.isPublic, r.exShare, nextCode) IN
  /\ r.pc = "upd_write"
  /\ UNCHANGED <<telVars, oauthVars, phoneVars, extVars>>
  /\ gen => nextCode <= MaxCodes
  /\ nextCode' = IF gen THEN nextCode + 1 ELSE nextCode
  /\ agents' = IF HasAgent(a)
               THEN [agents EXCEPT ![a] = UpdatedRow(@, r.isPublic, sc)]
               ELSE agents
  /\ issuedTo' = IF HasAgent(a) /\ gen THEN [issuedTo EXCEPT ![sc] = a] ELSE issuedTo
  /\ revoked' = IF HasAgent(a) /\ r.isPublic = "false"
                THEN revoked \cup {c \in Codes : issuedTo[c] = a}
                ELSE revoked
  /\ madePrivate' = IF HasAgent(a) /\ r.isPublic = "false"
                    THEN madePrivate \cup {a}
                    ELSE madePrivate
  /\ procs' = [procs EXCEPT ![p] = Respond(r, 200)]
  /\ UNCHANGED nextAgent

\* DELETE /api/agents/:id, up to the call of db.deleteAgentConfig
DeleteAgent(p) ==
  /\ procs[p].pc = "idle"
  /\ UNCHANGED <<telVars, oauthVars, phoneVars, extVars>>
  /\ \E user \in Users \cup {NoUser}, a \in ReqAgentIds :
       LET r == Request("DeleteAgent", user, a, Undef, NoCode)
           g == AgentGuard(user, a) IN
       /\ procs' = [procs EXCEPT ![p] =
            IF g # 0 THEN Respond(r, g) ELSE [r EXCEPT !.pc = "del_agent"]]
       /\ UNCHANGED agentVars

\* db.deleteAgentConfig returns !error; the handler ignores it and sends 204.
DeleteAgentRow(p) ==
  /\ procs[p].pc = "del_agent"
  /\ UNCHANGED <<telVars, oauthVars, phoneVars, extVars>>
  /\ \E error \in BOOLEAN :
       agents' = IF error THEN agents
                 ELSE [a \in DOMAIN agents \ {procs[p].agent} |-> agents[a]]
  /\ procs' = [procs EXCEPT ![p] = Respond(@, 204)]
  /\ UNCHANGED <<nextAgent, nextCode, issuedTo, revoked, madePrivate>>

\* ------------------------------------------------------ public share routes
\* GET /api/share/:shareCode
ShareInfo(p) ==
  /\ procs[p].pc = "idle"
  /\ UNCHANGED <<telVars, oauthVars, phoneVars, extVars>>
  /\ \E c \in Codes :
       LET r == Request("ShareInfo", NoUser, 0, Undef, c)
           found == getAgentConfigByShareCode(c) IN
       /\ procs' = [procs EXCEPT ![p] =
            IF found = {} THEN Respond(r, 404)
            ELSE Respond([r EXCEPT !.agent = CHOOSE a \in found : TRUE], 200)]
       /\ UNCHANGED agentVars

\* POST /api/share/:shareCode/token, up to roomService.createRoom
ShareToken(p) ==
  /\ procs[p].pc = "idle"
  /\ UNCHANGED <<telVars, oauthVars, phoneVars, extVars>>
  /\ \E c \in Codes :
       LET r == Request("ShareToken", NoUser, 0, Undef, c)
           found == getAgentConfigByShareCode(c) IN
       /\ procs' = [procs EXCEPT ![p] =
            IF found = {} THEN Respond(r, 404)
            ELSE [r EXCEPT !.pc = "room", !.agent = CHOOSE a \in found : TRUE]]
       /\ UNCHANGED agentVars

\* What becomes of a handler whose awaited call rejects outside any try
\* block: the promise the async handler returned is rejected.  The router
\* either ignores it, and the request never gets an answer, or hands it to
\* the default error handler, which answers 500; which one depends on the
\* version of express the server is built with.
Rejects(r) == {[Respond(r, 0) EXCEPT !.pc = "hung"], Respond(r, 500)}

\* await roomService.createRoom(..), then the token: 200.  The call is not
\* inside a try block.
ShareTokenRoom(p) ==
  /\ procs[p].pc = "room"
  /\ UNCHANGED <<telVars, oauthVars, phoneVars, extVars>>
  /\ \/ procs' = [procs EXCEPT ![p] = Respond(@, 200)]
     \/ \E out \in Rejects([procs[p] EXCEPT !.failed = TRUE]) :
          procs' = [procs EXCEPT ![p] = out]
  /\ UNCHANGED agentVars

\* The handler has answered (or the client gave up on a request that never
\* got an answer); the slot is free for the next request.
Complete(p) ==
  /\ procs[p].pc \in {"done", "hung"}
  /\ UNCHANGED <<telVars, oauthVars, phoneVars, extVars>>
  /\ procs' = [procs EXCEPT ![p] = IdleProc]
  /\ UNCHANGED agentVars

Step(p) ==
  \/ CreateAgent(p)
  \/ GetAgent(p)
  \/ PutAgent(p)
  \/ UpdateRead(p)
  \/ UpdateWrite(p)
  \/ DeleteAgent(p)
  \/ DeleteAgentRow(p)
  \/ ShareInfo(p)
  \/ ShareToken(p)
  \/ ShareTokenRoom(p)
  \/ Complete(p)

Next == \E p \in Procs : Step(p)

\* Requests of any number of clients, interleaved wherever a handler awaits.
Spec == Init /\ [][Next]_vars

\* ------------------------------------------------------- telephony: db layer
\* An insert that stores the row as active.
createTelephonyConfig_active(a, phone, n) ==
  [agent |-> a, phone_number |-> phone, ids |-> n, is_active |-> TRUE]

\* db.createTelephonyConfig: the inserted row, is_active false.
\* The three ids a row holds always stem from one run of
\* setupTelephonyForAgent (POST stores them together, fix-dispatch replaces
\* them together): the row holds the number n of that run, and its
\* inbound_trunk_id, outbound_trunk_id and dispatch_rule_id are <<n, kind>>.
createTelephonyConfig(a, phone, n) ==
  [agent |-> a, phone_number |-> phone, ids |-> n, is_active |-> FALSE]

TelMatches(a) == {t \in DOMAIN tel : tel[t].agent = a}

\* db.getTelephonyConfigByAgentId: .eq(agent_config_id).single() yields a row
\* only when exactly one matches; the id of that row, or 0 for null.
getTelephonyConfigByAgentId(a) ==
  IF Cardinality(TelMatches(a)) = 1 THEN CHOOSE t \in TelMatches(a) : TRUE ELSE 0


\* ---------------------------------------------------- telephony: the routes
TelRoutes == {"TelGet", "TelSetup", "TelActivate", "TelDelete", "TelFix"}

\* Where a route goes on once the agent guard has let the request pass.
AfterGuard(route) == IF route = "TelSetup" THEN "ts_check" ELSE "tel_load"

\* GET, PATCH ../activate, DELETE and POST ../fix-dispatch under
\* /api/agents/:id/telephony, up to the answer of getAgentConfig.
TelRequest(p, routes) ==
  /\ procs[p].pc = "idle"
  /\ \E route \in routes, user \in Users \cup {NoUser}, a \in ReqAgentIds :
       LET r == Request(route, user, a, Undef, NoCode)
           g == AgentGuard(user, a) IN
       procs' = [procs EXCEPT ![p] =
         IF g # 0 THEN Respond(r, g) ELSE [r EXCEPT !.pc = AfterGuard(route)]]
  /\ UNCHANGED <<oauthVars, phoneVars, extVars, agentVars, telVars>>

\* POST /api/agents/:id/telephony, up to the answer of getAgentConfig:
\* authenticate, validate(CreateTelephonyConfigRequestSchema), owner guard.
TelSetupOf(p, ids) ==
  /\ procs[p].pc = "idle"
  /\ \E user \in Users \cup {NoUser}, a \in ids, valid \in BOOLEAN,
        phone \in {"none", "listed", "unlisted"} :
       LET r == [Request("TelSetup", user, a, Undef, NoCode)
                   EXCEPT !.valid = valid, !.phone = phone]
           g == AgentGuard(user, a) IN
       procs' = [procs EXCEPT ![p] =
         IF ~authenticate(user) THEN Respond(r, 401)
         ELSE IF ~validate(r) THEN Respond(r, 400)
         ELSE IF g # 0 THEN Respond(r, g)
         ELSE [r EXCEPT !.pc = AfterGuard("TelSetup")]]
  /\ UNCHANGED <<oauthVars, phoneVars, extVars, agentVars, telVars>>

\* The clients name the agent ids of the model.
TelSetup(p) == TelSetupOf(p, ReqAgentIds)

\* POST: existing = getTelephonyConfigByAgentId -> 400 when present; 400 when
\* the body has no phone number; exotel.listNumbers -> 500 when it fails,
\* 400 when no listed number normalizes to the given one.
TelSetupCheck(p) ==
  /\ procs[p].pc = "ts_check"
  /\ \E listOk \in BOOLEAN :
       procs' = [procs EXCEPT ![p] =
         IF getTelephonyConfigByAgentId(@.agent) # 0 THEN Respond(@, 400)
         ELSE IF @.phone = "none" THEN Respond(@, 400)
         ELSE IF ~listOk THEN Respond([@ EXCEPT !.failed = TRUE], 500)
         ELSE IF @.phone = "unlisted" THEN Respond(@, 400)
         ELSE [@ EXCEPT !.pc = "sip_in"]]
  /\ UNCHANGED <<oauthVars, phoneVars, extVars, agentVars, telVars>>

\* setupTelephonyForAgent: createSipInboundTrunk; a failure is rethrown and
\* the route answers 500.
SipCreateInbound(p) ==
  /\ procs[p].pc = "sip_in"
  /\ \E ok \in BOOLEAN :
       IF ok THEN
         /\ nextSip <= MaxSetups
         /\ sip' = sip \cup {<<nextSip, "inbound">>}
         /\ nextSip' = nextSip + 1
         /\ procs' = [procs EXCEPT ![p] = [@ EXCEPT !.pc = "sip_out", !.ids = nextSip]]
       ELSE
         /\ procs' = [procs EXCEPT ![p] = Respond([@ EXCEPT !.failed = TRUE], 500)]
         /\ UNCHANGED <<sip, nextSip>>
  /\ UNCHANGED <<oauthVars, phoneVars, extVars, agentVars, tel, nextTel>>

\* setupTelephonyForAgent: createSipOutboundTrunk.
SipCreateOutbound(p) ==
  /\ procs[p].pc = "sip_out"
  /\ \E ok \in BOOLEAN :
       IF ok THEN
         /\ sip' = sip \cup {<<procs[p].ids, "outbound">>}
         /\ procs' = [procs EXCEPT ![p].pc = "sip_rule"]
       ELSE
         /\ procs' = [procs EXCEPT ![p] = Respond([@ EXCEPT !.failed = TRUE], 500)]
         /\ UNCHANGED sip
  /\ UNCHANGED <<oauthVars, phoneVars, extVars, agentVars, tel, nextTel, nextSip>>

\* A createSipDispatchRule whose failure takes the run's trunks down again.
SipCreateRule_compensates(p) ==
  /\ procs[p].pc = "sip_rule"
  /\ \E ok \in BOOLEAN :
       IF ok THEN
         /\ sip' = sip \cup {<<procs[p].ids, "rule">>}
         /\ procs' = [procs EXCEPT ![p].pc = "sip_saved"]
       ELSE
         /\ procs' = [procs EXCEPT ![p] = Respond([@ EXCEPT !.failed = TRUE], 500)]
         /\ sip' = {res \in sip : res[1] # procs[p].ids}
  /\ UNCHANGED <<oauthVars, phoneVars, extVars, agentVars, tel, nextTel, nextSip>>

\* setupTelephonyForAgent: createSipDispatchRule.
SipCreateRule(p) ==
  /\ procs[p].pc = "sip_rule"
  /\ \E ok \in BOOLEAN :
       IF ok THEN
         /\ sip' = sip \cup {<<procs[p].ids, "rule">>}
         /\ procs' = [procs EXCEPT ![p].pc = "sip_saved"]
       ELSE
         /\ procs' = [procs EXCEPT ![p] = Respond([@ EXCEPT !.failed = TRUE], 500)]
         /\ UNCHANGED sip
  /\ UNCHANGED <<oauthVars, phoneVars, extVars, agentVars, tel, nextTel, nextSip>>

\* setupTelephonyForAgent: db.setPlatformConfig throws on a store error; then
\* POST goes on to db.createTelephonyConfig, fix-dispatch to its update.
SipSetupDone(p) ==
  /\ procs[p].pc = "sip_saved"
  /\ \E ok \in BOOLEAN :
       procs' = [procs EXCEPT ![p] =
         IF ~ok THEN Respond(@, 500)
         ELSE [@ EXCEPT !.pc = IF procs[p].route = "TelSetup" THEN "ts_insert"
                               ELSE "fix_update"]]
  /\ UNCHANGED <<oauthVars, phoneVars, extVars, agentVars, telVars>>

\* POST: db.createTelephonyConfig inserts the row (it throws on a store
\* error: 500), then 201.
TelSetupInsert(p) ==
  LET r == procs[p] IN
  /\ r.pc = "ts_insert"
  /\ \E error \in BOOLEAN :
       IF error THEN
         /\ procs' = [procs EXCEPT ![p] = Respond(r, 500)]
         /\ UNCHANGED <<tel, nextTel>>
       ELSE
         /\ nextTel <= MaxTel
         /\ tel' = (nextTel :> createTelephonyConfig(r.agent, r.phone, r.ids)) @@ tel
         /\ nextTel' = nextTel + 1
         /\ procs' = [procs EXCEPT ![p] = Respond(r, 201)]
  /\ UNCHANGED <<oauthVars, phoneVars, extVars, agentVars, sip, nextSip>>

\* The remaining routes: telephonyConfig = getTelephonyConfigByAgentId ->
\* 404 when null.  GET answers 200; activate answers 200 when the row is
\* already active; the others go on with the row they loaded.
TelLoad(p) ==
  LET r == procs[p]
      t == getTelephonyConfigByAgentId(r.agent)
      loaded == [r EXCEPT !.cfg = t, !.ids = tel[t].ids] IN
  /\ r.pc = "tel_load"
  /\ procs' = [procs EXCEPT ![p] =
       IF t = 0 THEN Respond(r, 404)
       ELSE IF r.route = "TelGet" THEN Respond(loaded, 200)
       ELSE IF r.route = "TelActivate" THEN
         (IF tel[t].is_active THEN Respond(loaded, 200)
          ELSE [loaded EXCEPT !.pc = "act_write"])
       ELSE IF r.route = "TelDelete" THEN [loaded EXCEPT !.pc = "td_rule"]
       ELSE [loaded EXCEPT !.pc = "fix_rule"]]
  /\ UNCHANGED <<oauthVars, phoneVars, extVars, agentVars, telVars>>

\* db.updateTelephonyConfig: .update(..).eq(id).select().single(); null on a
\* store error and when the row is gone.
updateTelephonyConfig(t, error) == ~error /\ t \in DOMAIN tel

\* PATCH ../activate: db.updateTelephonyConfig(id, {isActive: true}), 500
\* when it yields null.
TelActivateWrite(p) ==
  LET r == procs[p] IN
  /\ r.pc = "act_write"
  /\ \E error \in BOOLEAN :
       IF updateTelephonyConfig(r.cfg, error) THEN
         /\ tel' = [tel EXCEPT ![r.cfg].is_active = TRUE]
         /\ procs' = [procs EXCEPT ![p] = Respond(r, 200)]
       ELSE
         /\ procs' = [procs EXCEPT ![p] = Respond(r, 500)]
         /\ UNCHANGED tel
  /\ UNCHANGED <<oauthVars, phoneVars, extVars, agentVars, nextTel, sip, nextSip>>

\* One deletion call of the SIP client inside try/catch: the resource is gone
\* when the call succeeds; a failure is logged and swallowed.  The log keeps,
\* per call the handler made, what it was to delete and whether it succeeded.
SipDelete(p, at, call, then) ==
  /\ procs[p].pc = at
  /\ IF procs[p].ids = 0 THEN
       /\ procs' = [procs EXCEPT ![p].pc = then]
       /\ UNCHANGED sip
     ELSE \E ok \in BOOLEAN :
       /\ sip' = IF ok THEN sip \ {<<procs[p].ids, call>>} ELSE sip
       /\ procs' = [procs EXCEPT ![p] =
            [@ EXCEPT !.pc = then, !.log = Append(@, <<call, ok>>),
                      !.failed = procs[p].failed \/ ~ok]]
  /\ UNCHANGED <<oauthVars, phoneVars, extVars, agentVars, tel, nextTel, nextSip>>

\* A teardown that returns after the dispatch rule, leaving the trunks.
TeardownRule_only(p) == SipDelete(p, "td_rule", "rule", "td_row")

\* teardownTelephony: deleteSipDispatchRule(config.dispatchRuleId)
TeardownRule(p) == SipDelete(p, "td_rule", "rule", "td_in")

\* teardownTelephony: deleteSipTrunk(config.inboundTrunkId)
TeardownInbound(p) == SipDelete(p, "td_in", "inbound", "td_out")

\* teardownTelephony: deleteSipTrunk(config.outboundTrunkId)
TeardownOutbound(p) == SipDelete(p, "td_out", "outbound", "td_row")

\* DELETE ../telephony: db.deleteTelephonyConfig(id) returns !error; the
\* handler ignores it and sends 204.
TelDeleteRow(p) ==
  LET r == procs[p] IN
  /\ r.pc = "td_row"
  /\ \E error \in BOOLEAN :
       /\ tel' = IF error THEN tel
                 ELSE [t \in DOMAIN tel \ {r.cfg} |-> tel[t]]
       /\ procs' = [procs EXCEPT ![p] =
            Respond([r EXCEPT !.log = Append(@, <<"row", ~error>>)], 204)]
  /\ UNCHANGED <<oauthVars, phoneVars, extVars, agentVars, nextTel, sip, nextSip>>

\* recreateTelephonySetup: deleteSipDispatchRule(config.dispatchRuleId)
FixDeleteRule(p) == SipDelete(p, "fix_rule", "rule", "fix_in")

\* recreateTelephonySetup: deleteSipTrunk(config.inboundTrunkId), then
\* setupTelephonyForAgent
FixDeleteInbound(p) == SipDelete(p, "fix_in", "inbound", "sip_in")

\* POST ../fix-dispatch: db.updateTelephonyConfig(id, the new ids); its
\* result is ignored, then 200.
TelFixUpdate(p) ==
  LET r == procs[p] IN
  /\ r.pc = "fix_update"
  /\ \E error \in BOOLEAN :
       tel' = IF updateTelephonyConfig(r.cfg, error)
              THEN [tel EXCEPT ![r.cfg].ids = r.ids]
              ELSE tel
  /\ procs' = [procs EXCEPT ![p] = Respond(r, 200)]
  /\ UNCHANGED <<oauthVars, phoneVars, extVars, agentVars, nextTel, sip, nextSip>>

\* ----------------------------------------------- telephony: specification
\* An agent owned by u1 exists and is private; nothing is provisioned yet.
InitTel ==
  /\ OneAgent
  /\ NoRequest
  /\ NoTelephony
  /\ NoOAuth
  /\ NoPhone
  /\ NoExt

\* Setups and deletions.
StepTel(p) ==
  \/ TelRequest(p, {"TelDelete"})
  \/ TelSetup(p)
  \/ TelSetupCheck(p)
  \/ SipCreateInbound(p)
  \/ SipCreateOutbound(p)
  \/ SipCreateRule(p)
  \/ SipSetupDone(p)
  \/ TelSetupInsert(p)
  \/ TelLoad(p)
  \/ TeardownRule(p)
  \/ TeardownInbound(p)
  \/ TeardownOutbound(p)
  \/ TelDeleteRow(p)
  \/ Complete(p)

NextTel == \E p \in Procs : StepTel(p)

\* Telephony setups and deletions of any number of clients, interleaved
\* wherever a handler awaits.
SpecTel == InitTel /\ [][NextTel]_vars

\* ------------------------------------------------------------ oauth: db layer
\* db.upsertOAuthConnection: the row after the upsert on (user_id, provider);
\* created_at is set by the store when the row is inserted.
upsertOAuthConnection(u, at, rt, expiresAt, mail) ==
  [access_token |-> at, refresh_token |-> rt, expires_at |-> expiresAt,
   email |-> IF mail THEN "mail" ELSE Undef,
   created_at |-> IF u \in DOMAIN conns THEN conns[u].created_at ELSE now]

\* The same mapping, handing the whole connection on.
ConnectionsResponse_whole(store, u) ==
  IF u \in DOMAIN store
  THEN {[id |-> u, provider |-> "google", email |-> store[u].email,
         isConnected |-> TRUE, connectedAt |-> store[u].created_at,
         accessToken |-> store[u].access_token,
         refreshToken |-> store[u].refresh_token]}
  ELSE {}

\* GET /api/oauth/connections: connections.map(conn => ({id, provider, email,
\* isConnected: true, connectedAt: conn.createdAt})) over the user's rows of
\* the store.
ConnectionsResponse(store, u) ==
  IF u \in DOMAIN store
  THEN {[id |-> u, provider |-> "google", email |-> store[u].email,
         isConnected |-> TRUE, connectedAt |-> store[u].created_at]}
  ELSE {}

\* GET /api/tools: TOOL_OPTIONS.map(tool => ({...tool, status,
\* connectedEmail})).
ToolsResponse(store, u) ==
  { [id |-> "web_search",
     status |-> IF env.perplexity THEN "available" ELSE "needs_api_key",
     connectedEmail |-> Undef],
    [id |-> "google_calendar",
     status |-> IF u \in DOMAIN store THEN "available" ELSE "needs_auth",
     connectedEmail |-> IF u \in DOMAIN store THEN store[u].email ELSE Undef] }

\* const stateData = oauthStates.get(state);
\* !(!stateData || stateData.expiresAt < Date.now())
StateValid(st) == st \in DOMAIN oauthStates /\ ~(oauthStates[st].expiresAt < now)

\* A delete that leaves the map as it is.
ConsumeState_keeps(st) == oauthStates

\* oauthStates.delete(state)
ConsumeState(st) == [t \in DOMAIN oauthStates \ {st} |-> oauthStates[t]]

\* ------------------------------------------------------- oauth: the routes
\* GET /api/oauth/connections; db.getOAuthConnectionsByUser yields [] on a
\* store error.
OAuthConnections(p) ==
  /\ procs[p].pc = "idle"
  /\ \E user \in Users \cup {NoUser}, error \in BOOLEAN :
       LET r == [IdleProc EXCEPT !.route = "OAuthConnections", !.user = user] IN
       procs' = [procs EXCEPT ![p] =
         IF ~authenticate(user) THEN Respond(r, 401)
         ELSE Respond([r EXCEPT !.body = IF error THEN {}
                                        ELSE ConnectionsResponse(conns, user)], 200)]
  /\ UNCHANGED <<agentVars, telVars, oauthVars, phoneVars, extVars>>

\* GET /api/tools
Tools(p) ==
  /\ procs[p].pc = "idle"
  /\ \E user \in Users \cup {NoUser}, error \in BOOLEAN :
       LET r == [IdleProc EXCEPT !.route = "Tools", !.user = user] IN
       procs' = [procs EXCEPT ![p] =
         IF ~authenticate(user) THEN Respond(r, 401)
         ELSE Respond([r EXCEPT !.body = ToolsResponse(IF error THEN <<>> ELSE conns,
                                                       user)], 200)]
  /\ UNCHANGED <<agentVars, telVars, oauthVars, phoneVars, extVars>>

\* GET /api/oauth/google: a fresh state token, kept with the user and
\* Date.now() + 10 minutes; the answer holds the URL that carries the state.
OAuthStart(p) ==
  /\ procs[p].pc = "idle"
  /\ \E user \in Users \cup {NoUser} :
       LET r == [IdleProc EXCEPT !.route = "OAuthStart", !.user = user] IN
       IF ~authenticate(user) THEN
         /\ procs' = [procs EXCEPT ![p] = Respond(r, 401)]
         /\ UNCHANGED <<oauthStates, nextState>>
       ELSE IF ~env.google THEN
         /\ procs' = [procs EXCEPT ![p] = Respond(r, 500)]
         /\ UNCHANGED <<oauthStates, nextState>>
       ELSE
         /\ nextState <= MaxStates
         /\ oauthStates' = (nextState :> [userId |-> user, expiresAt |-> now + StateTtl])
                             @@ oauthStates
         /\ nextState' = nextState + 1
         /\ procs' = [procs EXCEPT ![p] =
              Respond([r EXCEPT !.body = [authUrl |-> nextState]], 200)]
  /\ UNCHANGED <<agentVars, telVars, now, conns, nextToken, accepted, presented, env,
                 phoneVars, extVars>>

\* DELETE /api/oauth/:provider; db.deleteOAuthConnection returns !error.
OAuthDelete(p) ==
  /\ procs[p].pc = "idle"
  /\ \E user \in Users \cup {NoUser}, provider \in Providers, error \in BOOLEAN :
       LET r == [IdleProc EXCEPT !.route = "OAuthDelete", !.user = user,
                                 !.provider = provider] IN
       IF ~authenticate(user) THEN
         /\ procs' = [procs EXCEPT ![p] = Respond(r, 401)]
         /\ UNCHANGED conns
       ELSE IF provider # "google" THEN
         /\ procs' = [procs EXCEPT ![p] = Respond(r, 400)]
         /\ UNCHANGED conns
       ELSE
         /\ conns' = IF error THEN conns
                     ELSE [u \in DOMAIN conns \ {user} |-> conns[u]]
         /\ procs' = [procs EXCEPT ![p] = Respond(r, IF error THEN 404 ELSE 204)]
  /\ UNCHANGED <<agentVars, telVars, oauthStates, nextState, now, nextToken,
                 accepted, presented, env,
                 phoneVars, extVars>>

\* GET /api/oauth/google/callback, up to the token exchange: the error
\* parameter, the missing parameters, the state check.  Everything up to
\* oauthStates.delete runs without an await.
OAuthCallback(p) ==
  /\ procs[p].pc = "idle"
  /\ \E hasError \in BOOLEAN, hasCode \in BOOLEAN, st \in 0..MaxStates :
       LET r == [IdleProc EXCEPT !.route = "OAuthCallback", !.state = st,
                                 !.hasCode = hasCode, !.hasError = hasError] IN
       /\ presented' = IF st = 0 THEN presented ELSE presented \cup {st}
       /\ IF hasError THEN
            /\ procs' = [procs EXCEPT ![p] = Respond([r EXCEPT !.body = "error"], 302)]
            /\ UNCHANGED <<oauthStates, accepted>>
          ELSE IF ~hasCode \/ st = 0 THEN
            /\ procs' = [procs EXCEPT ![p] =
                 Respond([r EXCEPT !.body = "missing_params"], 302)]
            /\ UNCHANGED <<oauthStates, accepted>>
          ELSE IF ~StateValid(st) THEN
            /\ oauthStates' = ConsumeState(st)
            /\ procs' = [procs EXCEPT ![p] =
                 Respond([r EXCEPT !.body = "invalid_state"], 302)]
            /\ UNCHANGED accepted
          ELSE
            /\ oauthStates' = ConsumeState(st)
            /\ accepted' = [accepted EXCEPT ![st] = @ + 1]
            /\ procs' = [procs EXCEPT ![p] =
                 [r EXCEPT !.pc = "cb_exchange", !.owner = oauthStates[st].userId]]
  /\ UNCHANGED <<agentVars, telVars, nextState, now, conns, nextToken, env,
                 phoneVars, extVars>>

\* The callback's fetch of oauth2.googleapis.com/token: the tokens, a
\* response that is not ok (token_exchange_failed), or a thrown error
\* (unknown_error).
CallbackExchange(p) ==
  /\ procs[p].pc = "cb_exchange"
  /\ \E outcome \in {"ok", "refused", "throws"}, withRefresh \in BOOLEAN,
        expiresIn \in 1..MaxExpiresIn :
       IF outcome = "ok" THEN
         /\ nextToken <= MaxTokens
         /\ nextToken' = nextToken + 1
         /\ procs' = [procs EXCEPT ![p] =
              [@ EXCEPT !.pc = "cb_userinfo", !.at = nextToken,
                        !.rt = IF withRefresh THEN nextToken ELSE 0,
                        !.expiresIn = expiresIn]]
       ELSE
         /\ procs' = [procs EXCEPT ![p] =
              Respond([@ EXCEPT !.body = IF outcome = "refused"
                                         THEN "token_exchange_failed"
                                         ELSE "unknown_error"], 302)]
         /\ UNCHANGED nextToken
  /\ UNCHANGED <<agentVars, telVars, oauthStates, nextState, now, conns,
                 accepted, presented, env,
                 phoneVars, extVars>>

\* The callback's fetch of the user's email: kept when the response is ok.
CallbackUserInfo(p) ==
  /\ procs[p].pc = "cb_userinfo"
  /\ \E outcome \in {"ok", "refused", "throws"} :
       procs' = [procs EXCEPT ![p] =
         IF outcome = "throws" THEN Respond([@ EXCEPT !.body = "unknown_error"], 302)
         ELSE [@ EXCEPT !.pc = "cb_store", !.mail = (outcome = "ok")]]
  /\ UNCHANGED <<agentVars, telVars, oauthVars, phoneVars, extVars>>

\* The callback's db.upsertOAuthConnection (it throws on a store error), then
\* the redirect that reports success.
CallbackStore(p) ==
  LET r == procs[p]
      row == upsertOAuthConnection(r.owner, r.at, r.rt, now + r.expiresIn, r.mail) IN
  /\ r.pc = "cb_store"
  /\ \E error \in BOOLEAN :
       IF error THEN
         /\ procs' = [procs EXCEPT ![p] = Respond([r EXCEPT !.body = "unknown_error"], 302)]
         /\ UNCHANGED conns
       ELSE
         /\ conns' = [u \in DOMAIN conns \cup {r.owner} |->
                        IF u = r.owner THEN row ELSE conns[u]]
         /\ procs' = [procs EXCEPT ![p] = Respond([r EXCEPT !.body = "success"], 302)]
  /\ UNCHANGED <<agentVars, telVars, oauthStates, nextState, now, nextToken,
                 accepted, presented, env,
                 phoneVars, extVars>>

\* Time passes.
Tick ==
  /\ now < MaxTime
  /\ now' = now + 1
  /\ UNCHANGED <<agentVars, telVars, procs, oauthStates, nextState, conns,
                 nextToken, accepted, presented, env,
                 phoneVars, extVars>>

\* ------------------------------------------------- oauth: specification
\* Nothing stored, every part of the environment set up.
InitOAuth ==
  /\ NoAgents
  /\ NoRequest
  /\ NoTelephony
  /\ NoOAuth
  /\ NoPhone
  /\ NoExt

StepOAuth(p) ==
  \/ OAuthStart(p)
  \/ OAuthCallback(p)
  \/ CallbackExchange(p)
  \/ CallbackUserInfo(p)
  \/ CallbackStore(p)
  \/ Complete(p)

NextOAuth == Tick \/ \E p \in Procs : StepOAuth(p)

\* The OAuth routes of any number of clients, interleaved wherever a handler
\* awaits, while time passes.
SpecOAuth == InitOAuth /\ [][NextOAuth]_vars

\* ------------------------------------------------ oauth: the state token
\* Process p takes up a callback in this step.
CallbackArrives(p) == procs[p].pc = "idle" /\ procs'[p].route = "OAuthCallback"

\* The callback carries a code and a state and no error parameter.
Complete3(r) == r.hasCode /\ ~r.hasError /\ r.state # 0

\* The callback is answered in the step that takes it up, with message m.
Rejected(p, m) == procs'[p].pc = "done" /\ procs'[p].body = m

\* C6 as stated: the callback proceeds to the token exchange only for a state
\* that is in the map and not past its 10-minute expiry; a missing, expired
\* or already presented state is rejected with invalid_state; each state is
\* accepted by at most one callback.
C6_AsStated ==
  [][ /\ \A p \in Procs : (CallbackArrives(p) /\ Complete3(procs'[p])) =>
           LET st == procs'[p].state IN
           /\ procs'[p].pc = "cb_exchange" => StateValid(st)
           /\ (~StateValid(st) \/ st \in presented) => Rejected(p, "invalid_state")
      /\ \A s \in DOMAIN oauthStates' \ DOMAIN oauthStates :
           oauthStates'[s].expiresAt = now + StateTtl
      /\ \A s \in StateTokens : accepted'[s] <= 1 ]_vars

\* C6: a callback proceeds to the token exchange only when it carries a code
\* and a state and no error parameter, and the state is in the map and not
\* past its expiry, 10 minutes after it was handed out; such a callback whose
\* state is missing from the map (never handed out, or consumed by an earlier
\* state check) or expired is rejected with invalid_state; a state that was
\* accepted is gone from the map, and each state is accepted by at most one
\* callback, also when two callbacks carrying it are in flight at once.
C6_StateConsumedOnce ==
  [][ /\ \A p \in Procs : CallbackArrives(p) =>
           LET st == procs'[p].state IN
           /\ procs'[p].pc = "cb_exchange" => Complete3(procs'[p]) /\ StateValid(st)
           /\ (Complete3(procs'[p]) /\ ~StateValid(st)) => Rejected(p, "invalid_state")
      /\ \A s \in DOMAIN oauthStates' \ DOMAIN oauthStates :
           oauthStates'[s].expiresAt = now + StateTtl
      /\ \A s \in StateTokens :
           /\ accepted'[s] <= 1
           /\ accepted'[s] = 1 => s \notin DOMAIN oauthStates' ]_vars

\* Two callbacks carrying the same state: one was accepted and is still in
\* flight, the other has been rejected with invalid_state.
C6_Witness ==
  \E p, q \in Procs :
    /\ procs[p].pc \in {"cb_exchange", "cb_userinfo", "cb_store"}
    /\ procs[q].pc = "done" /\ procs[q].route = "OAuthCallback"
    /\ procs[q].state = procs[p].state /\ Complete3(procs[q])
    /\ procs[q].body = "invalid_state"
    /\ accepted[procs[p].state] = 1

\* --------------------------------------------- oauth: frontend responses
\* The stores that differ from the store only in token values.
TokenVariants(store) ==
  { [u \in DOMAIN store |-> [store[u] EXCEPT !.access_token = f[u][1],
                                              !.refresh_token = f[u][2]]] :
      f \in [DOMAIN store -> (1..MaxTokens) \X (0..MaxTokens)] }

\* The connection stores the frontend routes are run against: any user
\* connected or not, with or without a refresh token and an email.
ConnStores ==
  UNION { [us -> [access_token : {1}, refresh_token : {0, 1},
                  expires_at : {1}, email : {"mail", Undef}, created_at : {0}]] :
          us \in SUBSET Users }

InitFront ==
  /\ NoAgents
  /\ NoRequest
  /\ NoTelephony
  /\ oauthStates = <<>>
  /\ nextState = 1
  /\ now = 0
  /\ conns \in ConnStores
  /\ nextToken = MaxTokens + 1
  /\ accepted = [s \in StateTokens |-> 0]
  /\ presented = {}
  /\ env \in {e \in Envs : e.secret = "k1" /\ e.google}
  /\ NoPhone
  /\ NoExt

StepFront(p) ==
  \/ OAuthConnections(p)
  \/ Tools(p)
  \/ OAuthStart(p)
  \/ OAuthDelete(p)
  \/ Complete(p)

NextFront == \E p \in Procs : StepFront(p)

\* The x-user-id authenticated OAuth routes, run against any connection store.
SpecFront == InitFront /\ [][NextFront]_vars

FrontRoutes == {"OAuthConnections", "Tools", "OAuthStart", "OAuthDelete"}

\* The fields of OAuthConnectionStatus.
StatusFields == {"id", "provider", "email", "isConnected", "connectedAt"}

\* C9: the answer of an x-user-id authenticated OAuth route holds no access
\* token and no refresh token: GET /api/oauth/connections answers with
\* records of exactly id, provider, email, isConnected and connectedAt, and
\* the answers of it and of GET /api/tools are what they would be for any
\* store that differs only in token values; the other routes answer with
\* the state token's URL or with no body.
C9_NoTokenInResponse ==
  [][ \A p \in Procs :
        (procs[p].pc = "idle" /\ procs'[p].route \in FrontRoutes) =>
          LET r == procs'[p] IN
          IF r.route = "OAuthConnections" /\ r.status = 200 THEN
            /\ \A c \in r.body : DOMAIN c = StatusFields
            /\ \/ r.body = {}
               \/ \A s2 \in TokenVariants(conns) :
                    r.body = ConnectionsResponse(s2, r.user)
          ELSE IF r.route = "Tools" /\ r.status = 200 THEN
            \/ r.body = ToolsResponse(<<>>, r.user)
            \/ \A s2 \in TokenVariants(conns) : r.body = ToolsResponse(s2, r.user)
          ELSE IF r.route = "OAuthStart" /\ r.status = 200 THEN
            r.body = [authUrl |-> nextState]
          ELSE r.body = "none" ]_vars

\* A user whose stored connection holds both tokens has read the connections
\* and got one record.
C9_Witness ==
  \E p \in Procs :
    /\ procs[p].pc = "done" /\ procs[p].route = "OAuthConnections"
    /\ procs[p].status = 200 /\ Cardinality(procs[p].body) = 1
    /\ procs[p].user \in DOMAIN conns
    /\ conns[procs[p].user].refresh_token # 0

\* ------------------------------------------------------- internal routes
\* const apiKey = req.headers['x-api-key']; !(apiKey !== LIVEKIT_API_SECRET):
\* strict equality of the header, undefined when absent, and the secret,
\* undefined when not set.
InternalAuth(apiKey) == apiKey = env.secret

\* GET /api/internal/agents/:agentId
InternalAgent(p) ==
  /\ procs[p].pc = "idle"
  /\ \E apiKey \in ApiKeys, a \in ReqAgentIds, throws \in BOOLEAN :
       LET r == [IdleProc EXCEPT !.route = "InternalAgent", !.apiKey = apiKey,
                                 !.agent = a] IN
       procs' = [procs EXCEPT ![p] =
         IF ~InternalAuth(apiKey) THEN Respond(r, 401)
         ELSE IF throws THEN Respond(r, 500)
         ELSE IF ~HasAgent(a) THEN Respond(r, 404)
         ELSE Respond([r EXCEPT !.body = [id |-> a, config |-> agents[a]]], 200)]
  /\ UNCHANGED <<agentVars, telVars, oauthVars, phoneVars, extVars>>

\* GET /api/internal/agents/by-prefix/:prefix: the first agent whose id
\* starts with the prefix.
InternalByPrefix(p) ==
  /\ procs[p].pc = "idle"
  /\ \E apiKey \in ApiKeys, a \in ReqAgentIds, error \in BOOLEAN :
       LET r == [IdleProc EXCEPT !.route = "InternalByPrefix", !.apiKey = apiKey,
                                 !.agent = a] IN
       procs' = [procs EXCEPT ![p] =
         IF ~InternalAuth(apiKey) THEN Respond(r, 401)
         ELSE IF error THEN Respond(r, 500)
         ELSE IF ~HasAgent(a) THEN Respond(r, 404)
         ELSE Respond([r EXCEPT !.body = [id |-> a, userId |-> agents[a].user_id]], 200)]
  /\ UNCHANGED <<agentVars, telVars, oauthVars, phoneVars, extVars>>

\* A test that refreshes whenever a refresh token is stored.
NeedsRefresh_always(row) == row.refresh_token # 0

\* connection.expiresAt && connection.expiresAt < new Date() &&
\* connection.refreshToken
NeedsRefresh(row) == row.expires_at < now /\ row.refresh_token # 0

\* GET /api/internal/oauth/:userId/:provider, up to the refresh: the stored
\* access token unless it is expired and a refresh token is stored.
InternalOAuth(p) ==
  /\ procs[p].pc = "idle"
  /\ \E apiKey \in ApiKeys, user \in Users, provider \in Providers :
       LET r == [IdleProc EXCEPT !.route = "InternalOAuth", !.apiKey = apiKey,
                                 !.owner = user, !.provider = provider] IN
       procs' = [procs EXCEPT ![p] =
         IF ~InternalAuth(apiKey) THEN Respond(r, 401)
         ELSE IF provider # "google" THEN Respond(r, 400)
         ELSE IF user \notin DOMAIN conns THEN Respond(r, 404)
         ELSE IF NeedsRefresh(conns[user])
           THEN [r EXCEPT !.pc = "io_refresh", !.at = conns[user].access_token]
         ELSE Respond([r EXCEPT !.body = [accessToken |-> conns[user].access_token]], 200)]
  /\ UNCHANGED <<agentVars, telVars, oauthVars, phoneVars, extVars>>

\* The refresh grant: a new access token when the response is ok; otherwise,
\* and when the fetch throws, the stored token is answered.
InternalRefresh(p) ==
  /\ procs[p].pc = "io_refresh"
  /\ \E outcome \in {"ok", "refused", "throws"}, expiresIn \in 1..MaxExpiresIn :
       IF outcome = "ok" THEN
         /\ nextToken <= MaxTokens
         /\ nextToken' = nextToken + 1
         /\ procs' = [procs EXCEPT ![p] =
              [@ EXCEPT !.pc = "io_update", !.at = nextToken, !.expiresIn = expiresIn]]
       ELSE
         /\ procs' = [procs EXCEPT ![p] =
              Respond([@ EXCEPT !.body = [accessToken |-> procs[p].at]], 200)]
         /\ UNCHANGED nextToken
  /\ UNCHANGED <<agentVars, telVars, oauthStates, nextState, now, conns,
                 accepted, presented, env,
                 phoneVars, extVars>>

\* db.updateOAuthConnection(userId, provider, {accessToken, expiresAt}); its
\* result (null on a store error) is ignored, the new access token is
\* answered.  The log keeps whether the store took the update.
InternalUpdate(p) ==
  LET r == procs[p] IN
  /\ r.pc = "io_update"
  /\ \E error \in BOOLEAN :
       LET stored == ~error /\ r.owner \in DOMAIN conns IN
       /\ conns' = IF stored
                   THEN [conns EXCEPT ![r.owner].access_token = r.at,
                                      ![r.owner].expires_at = now + r.expiresIn]
                   ELSE conns
       /\ procs' = [procs EXCEPT ![p] =
            Respond([r EXCEPT !.body = [accessToken |-> r.at],
                              !.log = <<<<"update", stored>>>>], 200)]
  /\ UNCHANGED <<agentVars, telVars, oauthStates, nextState, now, nextToken,
                 accepted, presented, env,
                 phoneVars, extVars>>

\* An agent of u1 exists, u1 is connected with an access token that expires
\* at the start of the clock and a refresh token; the server's secret is
\* set or is not.
InitInternal ==
  /\ OneAgent
  /\ NoRequest
  /\ NoTelephony
  /\ oauthStates = <<>>
  /\ nextState = 1
  /\ now = 0
  /\ conns = ("u1" :> [access_token |-> 1, refresh_token |-> 1, expires_at |-> 0,
                       email |-> "mail", created_at |-> 0])
  /\ nextToken = 2
  /\ accepted = [s \in StateTokens |-> 0]
  /\ presented = {}
  /\ env \in {e \in Envs : e.google /\ e.perplexity}
  /\ NoPhone
  /\ NoExt

StepInternal(p) ==
  \/ InternalAgent(p)
  \/ InternalByPrefix(p)
  \/ InternalOAuth(p)
  \/ InternalRefresh(p)
  \/ InternalUpdate(p)
  \/ Complete(p)

NextInternal == Tick \/ \E p \in Procs : StepInternal(p)

\* The internal routes called by any number of clients while time passes.
SpecInternal == InitInternal /\ [][NextInternal]_vars

InternalRoutes == {"InternalAgent", "InternalByPrefix", "InternalOAuth"}

\* C10: an internal route answers with an agent's configuration or an access
\* token only when the request's x-api-key equals the configured secret; a
\* request whose x-api-key is absent or different is answered 401 with no
\* data, also when the server's secret is not set.
C10_InternalNeedsKey ==
  [][ \A p \in Procs :
        (procs[p].pc = "idle" /\ procs'[p].route \in InternalRoutes) =>
          \/ /\ env.secret # Undef
             /\ procs'[p].apiKey = env.secret
          \/ /\ procs'[p].pc = "done"
             /\ procs'[p].status = 401
             /\ procs'[p].body = "none" ]_vars

\* ------------------------------------------------------ phone normalization
\* The number X written in a form.
Written(form, x) ==
  IF form = "+91X" THEN <<"+", "9", "1">> \o x
  ELSE IF form = "91X" THEN <<"9", "1">> \o x
  ELSE IF form = "0X" THEN <<"0">> \o x
  ELSE x

\* num.replace(/^pre/, ''): the string without the prefix when it starts
\* with it.
StripPrefix(pre, num) ==
  IF Len(num) >= Len(pre) /\ SubSeq(num, 1, Len(pre)) = pre
  THEN SubSeq(num, Len(pre) + 1, Len(num))
  ELSE num

IsNoSeparator(c) == c \notin Separators

\* num.replace(/[\s\-\(\)]/g, '')
StripSeparators(num) == SelectSeq(num, IsNoSeparator)

\* normalizePhone: .replace(/^\+91/, '').replace(/^91/, '').replace(/^0/, '')
\* .replace(/[\s\-\(\)]/g, '')
normalizePhone(num) ==
  StripSeparators(StripPrefix(<<"0">>,
    StripPrefix(<<"9", "1">>, StripPrefix(<<"+", "9", "1">>, num))))

\* The comparison of existingNumbers.find: the vendor's number matches the
\* given one when both normalize to the same string.
PhoneMatches(vendor, given) == normalizePhone(vendor) = normalizePhone(given)

\* Any subscriber number of PhoneLen digits.
InitPhone ==
  /\ NoAgents
  /\ NoRequest
  /\ NoTelephony
  /\ NoOAuth
  /\ NoExt
  /\ number \in [1..PhoneLen -> Digits]
  /\ normal = <<>>

\* normalizePhone applied to the number in each of its written forms.
Normalize ==
  /\ normal = <<>>
  /\ normal' = [f \in Forms |-> normalizePhone(Written(f, number))]
  /\ UNCHANGED <<agentVars, telVars, oauthVars, procs, number, extVars>>

SpecPhone == InitPhone /\ [][Normalize]_vars

\* C7: normalizePhone maps +91X, 91X, 0X and X to the same string for every
\* 10-digit X, so a number given in any of the four forms matches a vendor
\* number given in any other of them.
C7_FormsNormalizeAlike ==
  normal # <<>> =>
    \A f, g \in Forms :
      /\ normal[f] = normal[g]
      /\ PhoneMatches(Written(f, number), Written(g, number))

\* ------------------------------- agent and telephony routes, one at a time
\* No request of another client is in flight.
Alone(p) == \A q \in Procs \ {p} : procs[q].pc = "idle"

\* The agent, share and telephony routes, a request being taken up only when
\* no other is in flight.
NextSeq ==
  \E p \in Procs :
    \/ Alone(p) /\ CreateAgent(p)
    \/ Alone(p) /\ GetAgent(p)
    \/ Alone(p) /\ PutAgent(p)
    \/ Alone(p) /\ UpdateRead(p)
    \/ Alone(p) /\ UpdateWrite(p)
    \/ Alone(p) /\ DeleteAgent(p)
    \/ Alone(p) /\ DeleteAgentRow(p)
    \/ Alone(p) /\ ShareInfo(p)
    \/ Alone(p) /\ ShareToken(p)
    \/ Alone(p) /\ ShareTokenRoom(p)
    \/ Alone(p) /\ TelRequest(p, TelRoutes \ {"TelSetup"})
    \/ Alone(p) /\ TelSetup(p)
    \/ Alone(p) /\ TelSetupCheck(p)
    \/ Alone(p) /\ SipCreateInbound(p)
    \/ Alone(p) /\ SipCreateOutbound(p)
    \/ Alone(p) /\ SipCreateRule(p)
    \/ Alone(p) /\ SipSetupDone(p)
    \/ Alone(p) /\ TelSetupInsert(p)
    \/ Alone(p) /\ TelLoad(p)
    \/ Alone(p) /\ TelActivateWrite(p)
    \/ Alone(p) /\ TeardownRule(p)
    \/ Alone(p) /\ TeardownInbound(p)
    \/ Alone(p) /\ TeardownOutbound(p)
    \/ Alone(p) /\ TelDeleteRow(p)
    \/ Alone(p) /\ FixDeleteRule(p)
    \/ Alone(p) /\ FixDeleteInbound(p)
    \/ Alone(p) /\ TelFixUpdate(p)
    \/ Alone(p) /\ Complete(p)

SpecSeq == Init /\ [][NextSeq]_vars

\* ------------------------------------------------- ownership and existence
\* The routes that start with the owner guard.
GuardedRoutes == {"GetAgent", "PutAgent", "DeleteAgent"} \cup TelRoutes

\* Process p takes up a request to a guarded route in this step.
Arrives(p) == procs[p].pc = "idle" /\ procs'[p].route \in GuardedRoutes

\* The request names an agent that exists and is owned by somebody else.
NotOwner(r) ==
  r.user \in Users /\ HasAgent(r.agent) /\ agents[r.agent].user_id # r.user

\* The request carries an x-user-id and names an agent that does not exist.
Missing(r) == r.user \in Users /\ ~HasAgent(r.agent)

\* The request is answered with status s in the step that takes it up, and
\* that step leaves the stored rows and the remote resources as they were.
Refused(p, s) ==
  /\ procs'[p].pc = "done" /\ procs'[p].status = s
  /\ UNCHANGED <<agents, tel, sip>>

\* C1 as stated: on GET/PUT/DELETE /api/agents/:id and on every route under
\* /api/agents/:id/telephony, a request whose x-user-id differs from the
\* agent's owner is answered 403 and a request naming a nonexistent agent is
\* answered 404, and nothing stored or remote is created, changed or deleted.
C1_AsStated ==
  [][ \A p \in Procs : Arrives(p) =>
        /\ NotOwner(procs'[p]) => Refused(p, 403)
        /\ Missing(procs'[p]) => Refused(p, 404) ]_vars

\* C1: on the same routes, a request that passes the middleware (it carries
\* an x-user-id and, where the route validates a body, a body that parses)
\* is answered 403 when the x-user-id differs from the agent's owner and 404
\* when the agent does not exist, and nothing stored or remote is created,
\* changed or deleted; a request the middleware stops is answered 401 or 400
\* and changes nothing either.
C1_OwnerGuard ==
  [][ \A p \in Procs : Arrives(p) =>
        LET r == procs'[p] IN
        IF ~authenticate(r.user) THEN Refused(p, 401)
        ELSE IF ~validate(r) THEN Refused(p, 400)
        ELSE /\ NotOwner(r) => Refused(p, 403)
             /\ Missing(r) => Refused(p, 404) ]_vars

\* Somebody who is not the owner has asked for the deletion of the telephony
\* of an agent that has telephony set up, and has been answered 403.
C1_Witness ==
  \E p \in Procs :
    /\ procs[p].pc = "done" /\ procs[p].route = "TelDelete" /\ procs[p].status = 403
    /\ NotOwner(procs[p])
    /\ TelMatches(procs[p].agent) # {}
    /\ sip # {}

\* ---------------------------------------------------- telephony: properties
\* C4: in every reachable state each AgentConfig has at most one
\* TelephonyConfig row, also when two POST /api/agents/:id/telephony for the
\* same agent are handled concurrently.
C4_AtMostOneTelephonyConfig ==
  \A a \in AgentIds : Cardinality(TelMatches(a)) <= 1

\* The calls a handler has logged, without their outcomes.
Calls(log) == [i \in DOMAIN log |-> log[i][1]]

\* C5: when DELETE /api/agents/:id/telephony issues the deletion of the local
\* row it has attempted the remote deletions before, the dispatch rule first
\* and then the two trunks, and it issues it whatever their outcome: the row
\* is gone once the store has carried the deletion out, also when every
\* remote deletion failed.
C5_TeardownThenLocalDelete ==
  [][ \A p \in Procs :
        (procs[p].pc = "td_row" /\ procs'[p].pc # "td_row")
        => /\ Calls(procs[p].log) = <<"rule", "inbound", "outbound">>
           /\ procs'[p].pc = "done" /\ procs'[p].status = 204
           /\ Calls(procs'[p].log) = <<"rule", "inbound", "outbound", "row">>
           /\ procs'[p].log[4][2] => procs[p].cfg \notin DOMAIN tel' ]_vars

\* A DELETE has answered 204 after all three remote deletions failed, and the
\* agent's row is gone.
C5_Witness ==
  \E p \in Procs :
    /\ procs[p].pc = "done" /\ procs[p].route = "TelDelete" /\ procs[p].status = 204
    /\ procs[p].log = <<<<"rule", FALSE>>, <<"inbound", FALSE>>,
                        <<"outbound", FALSE>>, <<"row", TRUE>>>>
    /\ TelMatches(procs[p].agent) = {}
    /\ nextTel = 2

\* ------------------------------------------------------------ share codes
\* Process p performs the write of db.updateAgentConfig in this step.
WritesUpdate(p) == procs[p].pc = "upd_write" /\ procs'[p].pc = "done"

C3_ShareCodeStable ==
  [][ \A a \in DOMAIN agents \cap DOMAIN agents' :
        (agents[a].share_code # NoCode /\ a \notin madePrivate')
        => agents'[a].share_code = agents[a].share_code ]_vars

\* C8: the share routes resolve an agent only when the code is that agent's
\* current share code and the agent is public; a code the agent held when
\* the owner set isPublic=false yields 404 from then on, also after sharing
\* has been enabled again.
C8_RevokedCodeStays404 ==
  [][ \A p \in Procs :
        (procs[p].pc = "idle" /\ procs'[p].route \in {"ShareInfo", "ShareToken"})
        => /\ procs'[p].pc # "done" \/ procs'[p].status # 404
              => /\ HasAgent(procs'[p].agent)
                 /\ agents[procs'[p].agent].share_code = procs'[p].code
                 /\ agents[procs'[p].agent].is_public
           /\ procs'[p].code \in revoked
              => procs'[p].pc = "done" /\ procs'[p].status = 404 ]_vars

\* ------------------------------------------- voice sessions and calls
\* POST /api/token: authenticate, validate(GetTokenRequestSchema), the owner
\* guard, then on to roomService.createRoom, which is awaited outside any try
\* block as in the share route.
Token(p) ==
  /\ procs[p].pc = "idle"
  /\ \E user \in Users \cup {NoUser}, a \in ReqAgentIds, valid \in BOOLEAN :
       LET r == [Request("Token", user, a, Undef, NoCode) EXCEPT !.valid = valid]
           g == AgentGuard(user, a) IN
       procs' = [procs EXCEPT ![p] =
         IF ~authenticate(user) THEN Respond(r, 401)
         ELSE IF ~validate(r) THEN Respond(r, 400)
         ELSE IF g # 0 THEN Respond(r, g)
         ELSE [r EXCEPT !.pc = "room"]]
  /\ UNCHANGED <<agentVars, telVars, oauthVars, phoneVars, extVars>>

\* POST /api/call: authenticate, validate(OutboundCallRequestSchema), the
\* owner guard.
Call(p) ==
  /\ procs[p].pc = "idle"
  /\ \E user \in Users \cup {NoUser}, a \in ReqAgentIds, valid \in BOOLEAN :
       LET r == [Request("Call", user, a, Undef, NoCode) EXCEPT !.valid = valid]
           g == AgentGuard(user, a) IN
       procs' = [procs EXCEPT ![p] =
         IF ~authenticate(user) THEN Respond(r, 401)
         ELSE IF ~validate(r) THEN Respond(r, 400)
         ELSE IF g # 0 THEN Respond(r, g)
         ELSE [r EXCEPT !.pc = "call_load"]]
  /\ UNCHANGED <<agentVars, telVars, oauthVars, phoneVars, extVars>>

\* A test that lets a row pass whether it is active or not.
CallRefused_ignoresActive(t) == t = 0

\* The handler's test of the row it loaded:
\* !telephonyConfig || !telephonyConfig.isActive
CallRefused(t) == t = 0 \/ ~tel[t].is_active

\* POST /api/call: telephonyConfig = getTelephonyConfigByAgentId -> 400 when
\* there is none or it is not active.
CallLoad(p) ==
  LET r == procs[p]
      t == getTelephonyConfigByAgentId(r.agent) IN
  /\ r.pc = "call_load"
  /\ procs' = [procs EXCEPT ![p] =
       IF CallRefused(t) THEN Respond(r, 400) ELSE [r EXCEPT !.pc = "call_place"]]
  /\ UNCHANGED <<agentVars, telVars, oauthVars, phoneVars, extVars>>

\* placeOutboundCall inside the handler's try block: it reads the row again
\* and throws when there is none; else it sends the vendor the request to
\* dial.  Every throw, a vendor answer that is not ok included, ends in the
\* handler's catch: 500.
CallPlace(p) ==
  LET r == procs[p]
      t == getTelephonyConfigByAgentId(r.agent) IN
  /\ r.pc = "call_place"
  /\ IF t = 0 THEN
       /\ procs' = [procs EXCEPT ![p] = Respond(r, 500)]
       /\ UNCHANGED calls
     ELSE
       /\ calls < MaxCalls
       /\ calls' = calls + 1
       /\ \E ok \in BOOLEAN :
            procs' = [procs EXCEPT ![p] =
              IF ok THEN Respond(r, 200) ELSE Respond([r EXCEPT !.failed = TRUE], 500)]
  /\ UNCHANGED <<agentVars, telVars, oauthVars, phoneVars, kbVars, sess, sideVars, reqBody, resBody>>

\* ------------------------------------------------------- knowledge base
DocIds == 1..MaxDocs

\* db.getKnowledgeBaseDocument joined with the handler's test
\* !document || document.agent_config_id !== agentConfigId
HasDocument(d, a) == d \in DOMAIN docs /\ docs[d].agent = a

\* db.deleteKnowledgeBaseDocument: the table without the row.
deleteKnowledgeBaseDocument(d) == [x \in DOMAIN docs \ {d} |-> docs[x]]

\* llamaindex.deleteDocumentEmbeddings: it logs a warning and returns; the
\* pipeline keeps every file.
deleteDocumentEmbeddings(pl, a, d) == pl

\* llamaindex.queryKnowledgeBase: the retrieval nodes of the agent's pipeline,
\* told apart by the document their file belongs to.
queryKnowledgeBase(a) == {d \in DocIds : <<a, d>> \in pipeline}

\* Entry of the knowledge-base routes: authenticate, then inside the
\* handler's try block the request's own test (a file for upload, a query
\* for query) and the owner guard.
KbRequest(p, route, next) ==
  /\ procs[p].pc = "idle"
  /\ \E user \in Users \cup {NoUser}, a \in ReqAgentIds, valid \in BOOLEAN,
        d \in DocIds :
       LET r == [Request(route, user, a, Undef, NoCode)
                   EXCEPT !.valid = valid, !.doc = IF route = "KbDelete" THEN d ELSE 0]
           g == AgentGuard(user, a) IN
       /\ route = "KbDelete" => valid
       /\ route # "KbDelete" => d = 1
       /\ procs' = [procs EXCEPT ![p] =
            IF ~authenticate(user) THEN Respond(r, 401)
            ELSE IF ~validate(r) THEN Respond(r, 400)
            ELSE IF g # 0 THEN Respond(r, g)
            ELSE [r EXCEPT !.pc = next]]
  /\ UNCHANGED <<agentVars, telVars, oauthVars, phoneVars, extVars>>

\* A name multer can give the file it writes: one no file in the upload
\* directory and no request in flight has.
FreeFiles == {n \in 1..MaxFiles : n \notin tmp /\ \A q \in Procs : procs[q].file # n}

\* POST /api/agents/:id/knowledge-base/upload: authenticate, then
\* upload.single('file') writes the file of the request to the upload
\* directory; the handler answers 400 when there was no file, and unlinks
\* the file before it answers 404 or 403.
KbUpload(p) ==
  /\ procs[p].pc = "idle"
  /\ \E user \in Users \cup {NoUser}, a \in ReqAgentIds, valid \in BOOLEAN,
        f \in FreeFiles :
       LET r == [Request("KbUpload", user, a, Undef, NoCode) EXCEPT !.valid = valid]
           got == [r EXCEPT !.file = f]
           g == AgentGuard(user, a) IN
       /\ f = CHOOSE n \in FreeFiles : TRUE
       /\ procs' = [procs EXCEPT ![p] =
            IF ~authenticate(user) THEN Respond(r, 401)
            ELSE IF ~validate(r) THEN Respond(r, 400)
            ELSE IF g # 0 THEN Respond(got, g)
            ELSE [got EXCEPT !.pc = "kb_insert"]]
       /\ tmp' = IF authenticate(user) /\ validate(r) /\ g = 0 THEN tmp \cup {f} ELSE tmp
  /\ UNCHANGED <<agentVars, telVars, oauthVars, phoneVars, kbVars, calls, sess, reqBody,
                 resBody, rooms>>

\* upload: db.createKnowledgeBaseDocument; a store error ends in the catch.
KbInsert(p) ==
  LET r == procs[p] IN
  /\ r.pc = "kb_insert"
  /\ \E error \in BOOLEAN :
       IF error THEN
         /\ procs' = [procs EXCEPT ![p] = Respond(r, 500)]
         /\ UNCHANGED <<docs, nextDoc>>
       ELSE
         /\ nextDoc <= MaxDocs
         /\ docs' = (nextDoc :> [agent |-> r.agent]) @@ docs
         /\ nextDoc' = nextDoc + 1
         /\ procs' = [procs EXCEPT ![p] = [r EXCEPT !.pc = "kb_index", !.doc = nextDoc]]
  /\ UNCHANGED <<agentVars, telVars, oauthVars, phoneVars, pipeline, calls, sideVars, sess,
                 reqBody, resBody>>

\* upload: indexDocument puts the file into the agent's pipeline; when it
\* throws, the handler goes on to delete the row it had created.
KbIndex(p) ==
  LET r == procs[p] IN
  /\ r.pc = "kb_index"
  /\ \E ok \in BOOLEAN :
       IF ok THEN
         /\ pipeline' = pipeline \cup {<<r.agent, r.doc>>}
         /\ procs' = [procs EXCEPT ![p] = [r EXCEPT !.pc = "kb_count"]]
       ELSE
         /\ procs' = [procs EXCEPT ![p] = [r EXCEPT !.pc = "kb_undo", !.failed = TRUE]]
         /\ UNCHANGED pipeline
  /\ UNCHANGED <<agentVars, telVars, oauthVars, phoneVars, docs, nextDoc, calls, sideVars, sess,
                 reqBody, resBody>>

\* upload: db.updateKnowledgeBaseDocumentChunkCount inside the same try
\* block as indexDocument: when it throws, the handler goes on to delete the
\* row; else the finally block unlinks the file and the answer is 200.
KbCount(p) ==
  LET r == procs[p] IN
  /\ r.pc = "kb_count"
  /\ \E error \in BOOLEAN :
       IF error THEN
         /\ procs' = [procs EXCEPT ![p] = [r EXCEPT !.pc = "kb_undo"]]
         /\ UNCHANGED tmp
       ELSE
         /\ procs' = [procs EXCEPT ![p] = Respond(r, 200)]
         /\ tmp' = tmp \ {r.file}
  /\ UNCHANGED <<agentVars, telVars, oauthVars, phoneVars, kbVars, calls, sess, reqBody,
                 resBody, rooms>>

\* An undo that leaves the row it was to delete.
KbUndo_keeps(p) ==
  LET r == procs[p] IN
  /\ r.pc = "kb_undo"
  /\ docs' = docs
  /\ tmp' = tmp \ {r.file}
  /\ procs' = [procs EXCEPT ![p] = Respond([r EXCEPT !.log = Append(@, <<"row", TRUE>>)], 500)]
  /\ UNCHANGED <<agentVars, telVars, oauthVars, phoneVars, nextDoc, pipeline, calls,
                 sess, reqBody, resBody, rooms>>

\* upload, catch (indexError): db.deleteKnowledgeBaseDocument, then the
\* error is thrown on; the finally block unlinks the file; the outer catch
\* answers 500.  The log keeps whether the store deleted the row.
KbUndo(p) ==
  LET r == procs[p] IN
  /\ r.pc = "kb_undo"
  /\ \E error \in BOOLEAN :
       /\ docs' = IF error THEN docs ELSE deleteKnowledgeBaseDocument(r.doc)
       /\ procs' = [procs EXCEPT ![p] =
            Respond([r EXCEPT !.log = Append(@, <<"row", ~error>>)], 500)]
  /\ tmp' = tmp \ {r.file}
  /\ UNCHANGED <<agentVars, telVars, oauthVars, phoneVars, nextDoc, pipeline, calls,
                 sess, reqBody, resBody, rooms>>

\* DELETE /api/agents/:id/knowledge-base/documents/:docId
KbDelete(p) == KbRequest(p, "KbDelete", "kbd_load")

\* delete: document = db.getKnowledgeBaseDocument(docId) -> 404 when there is
\* none or it belongs to another agent.
KbDeleteLoad(p) ==
  LET r == procs[p] IN
  /\ r.pc = "kbd_load"
  /\ procs' = [procs EXCEPT ![p] =
       IF HasDocument(r.doc, r.agent) THEN [r EXCEPT !.pc = "kbd_row"]
       ELSE Respond(r, 404)]
  /\ UNCHANGED <<agentVars, telVars, oauthVars, phoneVars, extVars>>

\* delete: deleteDocumentEmbeddings, then db.deleteKnowledgeBaseDocument,
\* then 200; a store error ends in the catch.
KbDeleteRow(p) ==
  LET r == procs[p] IN
  /\ r.pc = "kbd_row"
  /\ pipeline' = deleteDocumentEmbeddings(pipeline, r.agent, r.doc)
  /\ \E error \in BOOLEAN :
       IF error THEN
         /\ procs' = [procs EXCEPT ![p] = Respond(r, 500)]
         /\ UNCHANGED docs
       ELSE
         /\ docs' = deleteKnowledgeBaseDocument(r.doc)
         /\ procs' = [procs EXCEPT ![p] = Respond(r, 200)]
  /\ UNCHANGED <<agentVars, telVars, oauthVars, phoneVars, nextDoc, calls, sideVars, sess,
                 reqBody, resBody>>

\* POST /api/agents/:id/knowledge-base/query
KbQuery(p) == KbRequest(p, "KbQuery", "kbq_run")

\* query: queryKnowledgeBase catches every error of the retrieval service and
\* returns []; the handler answers 200 with what it got.
KbQueryRun(p) ==
  LET r == procs[p] IN
  /\ r.pc = "kbq_run"
  /\ \E ok \in BOOLEAN :
       procs' = [procs EXCEPT ![p] =
         IF ok THEN Respond([r EXCEPT !.hits = queryKnowledgeBase(r.agent)], 200)
         ELSE Respond([r EXCEPT !.failed = TRUE], 200)]
  /\ UNCHANGED <<agentVars, telVars, oauthVars, phoneVars, extVars>>

\* ------------------------------------------- sessions and outbound calls
\* The agent 1 of u1 is stored; its telephony is not set up, or it is set up
\* by the run 1 of setupTelephonyForAgent and is active or not yet.
InitCall ==
  /\ OneAgent
  /\ NoRequest
  /\ NoOAuth
  /\ NoPhone
  /\ NoExt
  /\ \/ NoTelephony
     \/ /\ \E active \in BOOLEAN :
             tel = (1 :> [createTelephonyConfig(1, "listed", 1) EXCEPT !.is_active = active])
        /\ nextTel = 2
        /\ sip = {<<1, "inbound">>, <<1, "outbound">>, <<1, "rule">>}
        /\ nextSip = 2

StepCall(p) ==
  \/ Token(p)
  \/ ShareTokenRoom(p)
  \/ Call(p)
  \/ CallLoad(p)
  \/ CallPlace(p)
  \/ TelRequest(p, {"TelActivate", "TelDelete"})
  \/ TelLoad(p)
  \/ TelActivateWrite(p)
  \/ TeardownRule(p)
  \/ TeardownInbound(p)
  \/ TeardownOutbound(p)
  \/ TelDeleteRow(p)
  \/ Complete(p)

NextCall == \E p \in Procs : StepCall(p)

\* Sessions and outbound calls of one agent, with its telephony being
\* activated and deleted meanwhile.
SpecCall == InitCall /\ [][NextCall]_vars

\* ------------------------------------------- knowledge base: specification
\* The agent 1 of u1 is stored and has no document yet.
InitKb ==
  /\ OneAgent
  /\ NoRequest
  /\ NoTelephony
  /\ NoOAuth
  /\ NoPhone
  /\ NoExt

StepKb(p) ==
  \/ KbUpload(p)
  \/ KbInsert(p)
  \/ KbIndex(p)
  \/ KbCount(p)
  \/ KbUndo(p)
  \/ KbDelete(p)
  \/ KbDeleteLoad(p)
  \/ KbDeleteRow(p)
  \/ KbQuery(p)
  \/ KbQueryRun(p)
  \/ Complete(p)

NextKb == \E p \in Procs : StepKb(p)

\* Uploads, deletions and queries on the knowledge base of one agent.
SpecKb == InitKb /\ [][NextKb]_vars

\* ------------------------------------------------ third-party failures
\* C11: whenever a call to a third party (room creation, SIP control plane,
\* vendor HTTP, retrieval service) fails while a request is handled, that
\* request is answered 500.
C11_ThirdPartyFailureIs500 ==
  \A p \in Procs :
    (procs[p].pc \in {"done", "hung"} /\ procs[p].failed)
      => (procs[p].pc = "done" /\ procs[p].status = 500)

\* ---------------------------------------------------- outbound calls
\* Process p takes up a POST /api/call request in this step.
CallArrives(p) == procs[p].pc = "idle" /\ procs'[p].route = "Call"

\* Process p ends its request in this step with status s and without a
\* request to the vendor.
CallAnswered(p, s) ==
  procs'[p].pc = "done" /\ procs'[p].status = s /\ calls' = calls

\* Process p sends the vendor the request to dial in this step.
PlacesCall(p) ==
  procs[p].pc = "call_place" /\ procs'[p].pc = "done" /\ calls' = calls + 1

\* The agent of request r is stored and r's user owns it.
Owns(r) == HasAgent(r.agent) /\ agents[r.agent].user_id = r.user

\* The agent of request r has one telephony row and it is active.
ActiveTelephony(r) ==
  /\ getTelephonyConfigByAgentId(r.agent) # 0
  /\ tel[getTelephonyConfigByAgentId(r.agent)].is_active

SetupFailsLate(p) ==
  /\ procs[p].route = "TelSetup"
  /\ procs[p].pc \in {"sip_out", "sip_rule"}
  /\ procs'[p].pc = "done"

\* The resources of run n that no stored row and no request in flight refers
\* to.
Orphans ==
  {res \in sip : /\ \A t \in DOMAIN tel : tel[t].ids # res[1]
                 /\ \A p \in Procs : procs[p].ids # res[1]}

\* C13: when telephony setup fails after the inbound trunk was created, the
\* request ends with 500, no TelephonyConfig row is created, and what the run
\* had created remotely stays in place: the failing step deletes nothing, and
\* no later step deletes a resource that no row and no request refers to.
C13_FailedSetupLeavesOrphans ==
  [][ /\ \A p \in Procs :
           SetupFailsLate(p) =>
             /\ procs'[p].status = 500
             /\ tel' = tel
             /\ sip' = sip
             /\ <<procs[p].ids, "inbound">> \in sip'
             /\ \A t \in DOMAIN tel' : tel'[t].ids # procs[p].ids
      /\ Orphans \subseteq sip'
      /\ \A t \in DOMAIN tel' \ DOMAIN tel :
           \E p \in Procs : procs[p].pc = "ts_insert" /\ tel'[t].ids = procs[p].ids ]_vars

\* A setup has ended with 500 at the dispatch rule: both trunks of its run
\* are in place, they are orphans, and no row is stored.
C13_Witness ==
  /\ tel = <<>>
  /\ {<<1, "inbound">>, <<1, "outbound">>} \subseteq Orphans
  /\ <<1, "rule">> \notin sip
  /\ \E p \in Procs : /\ procs[p].route = "TelSetup" /\ procs[p].pc = "done"
                      /\ procs[p].status = 500 /\ procs[p].failed

\* ------------------------------------------------------- lazy refresh
\* Process p takes up a request for the google connection of a user who has
\* one, with a key the guard lets pass.
ReadsConnection(p) ==
  /\ procs[p].pc = "idle"
  /\ procs'[p].route = "InternalOAuth"
  /\ InternalAuth(procs'[p].apiKey)
  /\ procs'[p].provider = "google"
  /\ procs'[p].owner \in DOMAIN conns

\* The stored access token of the request's user is expired and a refresh
\* token is stored.
Expired(r) == conns[r.owner].expires_at < now /\ conns[r.owner].refresh_token # 0

\* Process p, whose refresh grant has succeeded, answers in this step.
AnswersRefreshed(p) == procs[p].pc = "io_update" /\ procs'[p].pc = "done"

C15_DeleteCascades ==
  [][ \A p \in Procs :
        /\ (procs[p].pc = "kbd_row" /\ procs'[p].pc = "done" /\ procs'[p].status = 200)
             => /\ procs[p].doc \notin DOMAIN docs'
                /\ <<procs[p].agent, procs[p].doc>> \notin pipeline'
        /\ (procs[p].pc = "kbq_run" /\ procs'[p].pc = "done")
             => procs'[p].hits \subseteq DOMAIN docs ]_vars

\* ------------------------------------------------- POST /api/agents: body
\* The fields of CreateAgentConfigRequestSchema that have a default, with the
\* default and one other value the schema admits.
SchemaDefault ==
  [voice |-> "ash", model |-> "gpt-4.1-mini", sttModel |-> "openai/gpt-4o-transcribe",
   ttsModel |-> "openai/gpt-4o-mini-tts", tools |-> <<>>, isPublic |-> FALSE]

\* The values db.createAgentConfig falls back to (data.x ?? ..) for a field
\* that is undefined in the data it is given.
DbFallback ==
  [voice |-> "cgSgspJ2msm6clMCkdW9", model |-> "gpt-4.1-mini", sttModel |-> "deepgram/nova-3",
   ttsModel |-> "elevenlabs/eleven_turbo_v2_5", tools |-> <<>>, isPublic |-> FALSE]

Defaulted == DOMAIN SchemaDefault

\* The request bodies: name (empty or not) and instructions; each defaulted
\* field and greeting is optional, {} when left out and {v} when given as v.
Bodies ==
  [name : {"", "Bot"}, instructions : {"Be helpful"},
   voice : {{}, {"coral"}}, model : {{}, {"gpt-4o"}},
   sttModel : {{}, {"deepgram/nova-3"}}, ttsModel : {{}, {"openai/tts-1"}},
   tools : {{}, {<<"web_search">>}}, isPublic : {{}, {TRUE}, {FALSE}},
   greeting : {{}, {"Hello"}}]

\* The value of an optional that is given.
The(opt) == CHOOSE v \in opt : TRUE

\* schema.safeParse(body).success: name is z.string().min(1).
ParseOk(b) == b.name # ""

\* validate without req.body = result.data: the handler gets the body as sent.
ParseCreate_asSent(b) == b

\* schema.safeParse(body).data, which validate puts in req.body: the body
\* with every defaulted field that was left out set to its default.
ParseCreate(b) ==
  [f \in DOMAIN b |->
     IF f \in Defaulted /\ b[f] = {} THEN {SchemaDefault[f]} ELSE b[f]]

\* db.createAgentConfig: the row it inserts, with the id the store generates
\* and the share code generateShareCode returns.
InsertAgentRow(userId, data, id, fresh) ==
  [id |-> id, user_id |-> userId, name |-> data.name,
   instructions |-> data.instructions,
   voice |-> IF data.voice = {} THEN DbFallback.voice ELSE The(data.voice),
   greeting |-> IF data.greeting = {} THEN "null" ELSE The(data.greeting),
   model |-> IF data.model = {} THEN DbFallback.model ELSE The(data.model),
   stt_model |-> IF data.sttModel = {} THEN DbFallback.sttModel ELSE The(data.sttModel),
   tts_model |-> IF data.ttsModel = {} THEN DbFallback.ttsModel ELSE The(data.ttsModel),
   tools |-> IF data.tools = {} THEN DbFallback.tools ELSE The(data.tools),
   is_public |-> IF data.isPublic = {} THEN DbFallback.isPublic ELSE The(data.isPublic),
   share_code |-> IF data.isPublic = {TRUE} THEN fresh ELSE "null"]

\* dbAgentToAgentConfig: the row as the AgentConfig the route answers with.
dbAgentToAgentConfig(row) ==
  [id |-> row.id, userId |-> row.user_id, name |-> row.name,
   instructions |-> row.instructions, voice |-> row.voice,
   greeting |-> IF row.greeting = "null" THEN Undef ELSE row.greeting,
   model |-> row.model, sttModel |-> row.stt_model, ttsModel |-> row.tts_model,
   tools |-> row.tools, isPublic |-> row.is_public,
   shareCode |-> IF row.share_code = "null" THEN Undef ELSE row.share_code]

\* One POST /api/agents request: its x-user-id and its body.
InitCreate ==
  /\ NoAgents
  /\ NoRequest
  /\ NoTelephony
  /\ NoOAuth
  /\ NoPhone
  /\ docs = <<>> /\ nextDoc = 1 /\ pipeline = {} /\ calls = 0 /\ rooms = {} /\ tmp = {} /\ sess = <<>>
  /\ reqBody \in [user : Users \cup {NoUser}, body : Bodies]
  /\ resBody = <<>>

\* POST /api/agents: authenticate, validate(CreateAgentConfigRequestSchema),
\* db.createAgentConfig, 201 with the agent; 500 when the insert fails.
PostAgent ==
  /\ resBody = <<>>
  /\ \E error \in BOOLEAN :
       resBody' =
         IF ~authenticate(reqBody.user) THEN [status |-> 401]
         ELSE IF ~ParseOk(reqBody.body) THEN [status |-> 400]
         ELSE IF error THEN [status |-> 500]
         ELSE [status |-> 201,
               agent |-> dbAgentToAgentConfig(
                 InsertAgentRow(reqBody.user, ParseCreate(reqBody.body), "uuid", "code"))]
  /\ UNCHANGED <<agentVars, telVars, oauthVars, phoneVars, procs, kbVars, calls, sideVars, sess,
                 reqBody>>

SpecCreate == InitCreate /\ [][PostAgent]_vars

\* The body holds name and instructions and nothing else.
OnlyNameAndInstructions(b) ==
  /\ b.name # ""
  /\ \A f \in Defaulted \cup {"greeting"} : b[f] = {}

\* C16: POST /api/agents with a body holding only name and instructions
\* answers 201 with a generated id, the default voice, model, sttModel,
\* ttsModel and tools, isPublic=false and no share code (or 500 with no
\* agent when the store refuses the insert).
C16_CreateDefaults ==
  (resBody # <<>> /\ authenticate(reqBody.user) /\ OnlyNameAndInstructions(reqBody.body))
    => \/ resBody = [status |-> 500]
       \/ /\ resBody.status = 201
          /\ resBody.agent.id = "uuid"
          /\ resBody.agent.userId = reqBody.user
          /\ resBody.agent.name = reqBody.body.name
          /\ resBody.agent.instructions = reqBody.body.instructions
          /\ resBody.agent.voice = "ash"
          /\ resBody.agent.model = "gpt-4.1-mini"
          /\ resBody.agent.sttModel = "openai/gpt-4o-transcribe"
          /\ resBody.agent.ttsModel = "openai/gpt-4o-mini-tts"
          /\ resBody.agent.tools = <<>>
          /\ resBody.agent.isPublic = FALSE
          /\ resBody.agent.shareCode = Undef

\* The request {name: "Bot", instructions: "Be helpful"} of u1 has been
\* answered 201.
C16_Witness ==
  /\ resBody # <<>>
  /\ reqBody.user = "u1"
  /\ OnlyNameAndInstructions(reqBody.body)
  /\ resBody.status = 201
  /\ resBody.agent.voice = "ash"

\* ------------------------------------------------- agent entry: the greeting
\* Time in the session is counted in ticks of 500 ms.
GreetDelay == 3
FallbackDelay == 20
MaxClock == 26
NoTimer == 0 - 1

\* The session when entry has returned from session.start: the kind of call,
\* the configured greeting, whether the SIP participant is already in the
\* room; no handler, no timer, nothing said.
InitSess ==
  /\ NoAgents
  /\ NoRequest
  /\ NoTelephony
  /\ NoOAuth
  /\ NoPhone
  /\ docs = <<>> /\ nextDoc = 1 /\ pipeline = {} /\ calls = 0 /\ rooms = {} /\ tmp = {}
  /\ reqBody = <<>> /\ resBody = <<>>
  /\ \E outbound \in BOOLEAN, greeting \in {"", "Hello"}, present \in BOOLEAN :
       sess = [pc |-> "entry", isOutboundCall |-> outbound, greeting |-> greeting,
               present |-> present, handler |-> FALSE, fallback |-> NoTimer,
               timers |-> <<>>, greeted |-> 0, now |-> 0]

SessFrame == UNCHANGED <<agentVars, telVars, oauthVars, phoneVars, procs, kbVars, calls, sideVars,
                         reqBody, resBody>>

\* setTimeout(() => session.generateReply(..), 1500)
GreetLater(s) == [s EXCEPT !.timers = Append(@, s.now + GreetDelay)]

\* checkForSipParticipant: with a SIP participant in the room it schedules
\* the greeting and returns true; otherwise it returns false.
checkForSipParticipant(s) == IF s.present THEN GreetLater(s) ELSE s

\* The rest of entry after session.start.
SessEntry ==
  /\ sess # <<>>
  /\ sess.pc = "entry"
  /\ sess' =
       LET s == [sess EXCEPT !.pc = "running"] IN
       IF s.greeting = "" THEN s
       ELSE IF ~s.isOutboundCall THEN [s EXCEPT !.greeted = @ + 1]
       ELSE IF s.present THEN checkForSipParticipant(s)
       ELSE [s EXCEPT !.handler = TRUE, !.fallback = s.now + FallbackDelay]
  /\ SessFrame

\* participantConnected: a participant joins the room (a SIP participant is
\* one whose identity starts with sip_ or +); participantHandler, when it is
\* registered, unregisters itself on a SIP participant and schedules the
\* greeting.
participantHandler ==
  /\ sess # <<>>
  /\ sess.pc = "running"
  /\ \E isSip \in BOOLEAN :
       /\ isSip => ~sess.present
       /\ sess' =
            LET s == [sess EXCEPT !.present = @ \/ isSip] IN
            IF s.handler /\ isSip THEN GreetLater([s EXCEPT !.handler = FALSE]) ELSE s
  /\ SessFrame

\* The SIP participant leaves the room (the callee hangs up).
ParticipantLeaves ==
  /\ sess # <<>>
  /\ sess.pc = "running"
  /\ sess.present
  /\ sess' = [sess EXCEPT !.present = FALSE]
  /\ SessFrame

\* A greeting timer fires: session.generateReply with the greeting.
GreetTimer ==
  /\ sess # <<>>
  /\ sess.timers # <<>>
  /\ Head(sess.timers) = sess.now
  /\ sess' = [sess EXCEPT !.timers = Tail(@), !.greeted = @ + 1]
  /\ SessFrame

\* The 10 second fallback timer fires: it unregisters participantHandler
\* and, unless checkForSipParticipant finds a SIP participant (and schedules
\* the greeting), it greets.
FallbackTimer ==
  /\ sess # <<>>
  /\ sess.fallback = sess.now
  /\ sess' =
       LET s == [sess EXCEPT !.fallback = NoTimer, !.handler = FALSE] IN
       IF s.present THEN checkForSipParticipant(s) ELSE [s EXCEPT !.greeted = @ + 1]
  /\ SessFrame

\* 500 ms pass; a timer that is due fires first.
SessTick ==
  /\ sess # <<>>
  /\ sess.pc = "running"
  /\ sess.now < MaxClock
  /\ sess.fallback # sess.now
  /\ sess.timers # <<>> => Head(sess.timers) # sess.now
  /\ sess' = [sess EXCEPT !.now = @ + 1]
  /\ SessFrame

NextSess ==
  \/ SessEntry
  \/ participantHandler
  \/ ParticipantLeaves
  \/ GreetTimer
  \/ FallbackTimer
  \/ SessTick

SpecSess == InitSess /\ [][NextSess]_vars

\* Nothing is pending in the session: no handler, no timer.
Settled ==
  /\ sess.pc = "running"
  /\ ~sess.handler
  /\ sess.fallback = NoTimer
  /\ sess.timers = <<>>

\* C17: in an outbound-call session with a non-empty greeting the agent
\* issues the greeting exactly once, whenever the SIP participant joins:
\* never more than once, and once when nothing is pending any more.
C17_GreetsExactlyOnce ==
  (sess # <<>> /\ sess.isOutboundCall /\ sess.greeting # "")
    => /\ sess.greeted <= 1
       /\ Settled => sess.greeted = 1

\* C18: after any interleaving of concurrent PUT /api/agents/:id requests,
\* every stored agent has isPublic true exactly when it has a share code.
C18_PublicIffShareCode ==
  \A a \in AgentIds :
    (HasAgent(a) /\ \A p \in DOMAIN procs : procs[p].pc \in {"idle", "done", "hung"})
      => (agents[a].is_public <=> agents[a].share_code # NoCode)

\* ------------------------------------------- telephony: fix-dispatch alone
\* The agent of u1 after one POST ../telephony that went through: its row,
\* and the inbound trunk, outbound trunk and dispatch rule of that setup.
InitFix ==
  /\ OneAgent
  /\ NoRequest
  /\ NoOAuth
  /\ NoPhone
  /\ NoExt
  /\ tel = (1 :> createTelephonyConfig(1, "listed", 1))
  /\ nextTel = 2
  /\ sip = {<<1, "inbound">>, <<1, "outbound">>, <<1, "rule">>}
  /\ nextSip = 2

\* POST ../fix-dispatch: the guard, the row, recreateTelephonySetup (its two
\* deletions, then setupTelephonyForAgent), the update of the row.
StepFix(p) ==
  \/ TelRequest(p, {"TelFix"})
  \/ TelLoad(p)
  \/ FixDeleteRule(p)
  \/ FixDeleteInbound(p)
  \/ SipCreateInbound(p)
  \/ SipCreateOutbound(p)
  \/ SipCreateRule(p)
  \/ SipSetupDone(p)
  \/ TelFixUpdate(p)
  \/ Complete(p)

NextFix == \E p \in Procs : StepFix(p)

SpecFix == InitFix /\ [][NextFix]_vars

\* The remote resources of one kind.
Remote(kind) == {res \in sip : res[2] = kind}

\* Request p is a fix-dispatch that was answered 200 and none of whose
\* remote calls failed, and no other request is in flight.
FixedCleanly(p) ==
  /\ procs[p].pc = "done"
  /\ procs[p].route = "TelFix"
  /\ procs[p].status = 200
  /\ ~procs[p].failed
  /\ \A q \in Procs \ {p} : procs[q].pc = "idle"

\* C19: recreateTelephonySetup deletes the dispatch rule, the inbound trunk
\* and the outbound trunk of the old setup before it creates the new ones:
\* after a fix-dispatch there is exactly one of each.
C19_FixLeavesOneOfEach ==
  \A p \in Procs :
    FixedCleanly(p) =>
      \A kind \in {"rule", "inbound", "outbound"} : Cardinality(Remote(kind)) = 1

\* -------------------------------------- dashboard: the number it submits
StartsWith(num, pre) == Len(num) >= Len(pre) /\ SubSeq(num, 1, Len(pre)) = pre

\* TelephonySettings formatPhoneNumber: +91.. is kept, 91.. gets a +, 0.. has
\* its 0 replaced by +91, anything else gets +91 in front.
formatPhoneNumber(phoneNumber) ==
  IF StartsWith(phoneNumber, <<"+", "9", "1">>) THEN phoneNumber
  ELSE IF StartsWith(phoneNumber, <<"9", "1">>) THEN <<"+">> \o phoneNumber
  ELSE IF StartsWith(phoneNumber, <<"0">>)
    THEN <<"+", "9", "1">> \o SubSeq(phoneNumber, 2, Len(phoneNumber))
  ELSE <<"+", "9", "1">> \o phoneNumber

\* Any subscriber number of PhoneLen digits; the vendor lists it in one of
\* the forms.
InitDash ==
  /\ NoAgents
  /\ NoRequest
  /\ NoTelephony
  /\ NoOAuth
  /\ docs = <<>> /\ nextDoc = 1 /\ pipeline = {} /\ calls = 0 /\ rooms = {} /\ tmp = {} /\ sess = <<>>
  /\ number \in [1..PhoneLen -> Digits]
  /\ normal = <<>>
  /\ reqBody = <<>>
  /\ resBody = <<>>

\* loadOwnedNumbers: GET /api/telephony/owned-numbers hands the vendor's
\* PhoneNumber through; the dashboard offers formatPhoneNumber of it.  Per
\* form the vendor may list the number in, the number offered.
loadOwnedNumbers ==
  /\ reqBody = <<>>
  /\ reqBody' = [f \in Forms |-> formatPhoneNumber(Written(f, number))]
  /\ UNCHANGED <<agentVars, telVars, oauthVars, phoneVars, procs, kbVars, calls, sideVars, sess,
                 resBody>>

\* handleSetup: the dashboard submits formatPhoneNumber of the selected
\* number; POST ../telephony looks the vendor's number up with
\* existingNumbers.find over normalizePhone.  Per form, the number submitted
\* and whether the vendor's number was found.
handleSetup ==
  /\ reqBody # <<>>
  /\ resBody = <<>>
  /\ reqBody' = [f \in Forms |-> formatPhoneNumber(reqBody[f])]
  /\ resBody' = [f \in Forms |-> PhoneMatches(Written(f, number), reqBody'[f])]
  /\ UNCHANGED <<agentVars, telVars, oauthVars, phoneVars, procs, kbVars, calls, sideVars, sess>>

SpecDash == InitDash /\ [][loadOwnedNumbers \/ handleSetup]_vars

\* C20: for every number n the vendor lists, the value the dashboard submits
\* after formatPhoneNumber(n) is matched to n by the server's normalizePhone.
C20_SubmittedNumberMatches ==
  resBody # <<>> => \A f \in Forms : resBody[f]

\* --------------------------------------- agent entry: assembling the session
\* The rooms the agent is dispatched to, by who created them: POST /api/token,
\* the share link, an inbound dispatch rule, placeOutboundCall, or a room
\* without metadata.
RoomKinds == {"token", "share", "dispatch", "outbound", "bare"}

\* The values AgentConfigSchema accepts for sttModel and ttsModel, as
\* <<prefix, model>> for the string prefix/model.
SttModels ==
  {<<"openai", "gpt-4o-transcribe">>, <<"openai", "whisper-1">>,
   <<"deepgram", "nova-3">>, <<"assemblyai", "universal-streaming">>,
   <<"cartesia", "ink-whisper">>}
TtsModels ==
  {<<"openai", "gpt-4o-mini-tts">>, <<"openai", "tts-1">>, <<"openai", "tts-1-hd">>,
   <<"elevenlabs", "eleven_turbo_v2_5">>, <<"elevenlabs", "eleven_multilingual_v2">>,
   <<"cartesia", "sonic-3">>, <<"cartesia", "sonic-2">>, <<"cartesia", "sonic-turbo">>,
   <<"cartesia", "sonic">>}

\* DEFAULT_CONFIG.sttModel and .ttsModel
DefaultStt == <<"openai", "gpt-4o-transcribe">>
DefaultTts == <<"openai", "gpt-4o-mini-tts">>

\* parseRoomMetadata of the metadata each kind of room carries: whether it
\* holds agentConfigId, agentConfig and isOutboundCall (null for no metadata).
parseRoomMetadata(kind) ==
  [agentConfigId |-> kind # "bare",
   agentConfig |-> kind \in {"token", "share"},
   isOutboundCall |-> kind = "outbound"]

\* The room the job is for, who is in it, and the models stored for its agent.
InitEntry ==
  /\ NoAgents
  /\ NoRequest
  /\ NoTelephony
  /\ NoOAuth
  /\ NoPhone
  /\ docs = <<>> /\ nextDoc = 1 /\ pipeline = {} /\ calls = 0 /\ rooms = {} /\ tmp = {}
  /\ reqBody = <<>> /\ resBody = <<>>
  /\ \E kind \in RoomKinds, hasSip \in BOOLEAN, sm \in SttModels, tm \in TtsModels :
       sess = [pc |-> "connect", kind |-> kind, hasSipParticipant |-> hasSip,
               stored |-> [sttModel |-> sm, ttsModel |-> tm],
               hasConfig |-> FALSE, isOutboundCall |-> FALSE, isTelephonyCall |-> FALSE,
               config |-> [sttModel |-> DefaultStt, ttsModel |-> DefaultTts],
               stt |-> <<>>, tts |-> <<>>, noiseCancellation |-> "none"]

\* entry up to the merge with the defaults: the metadata, the configuration
\* fetched from the API when the metadata holds only its id (the fetch may
\* fail), isTelephonyCall, config.
EntryConfig ==
  /\ sess # <<>>
  /\ sess.pc = "connect"
  /\ \E fetched \in BOOLEAN :
       LET meta == parseRoomMetadata(sess.kind)
           has == meta.agentConfig \/ (meta.agentConfigId /\ fetched) IN
       sess' = [sess EXCEPT
         !.pc = "providers",
         !.hasConfig = has,
         !.isOutboundCall = meta.isOutboundCall,
         !.isTelephonyCall =
            meta.isOutboundCall \/ sess.hasSipParticipant \/ meta.agentConfigId,
         !.config = IF has THEN sess.stored
                    ELSE [sttModel |-> DefaultStt, ttsModel |-> DefaultTts]]
  /\ SessFrame

\* Map TTS model to provider.
TtsProvider(ttsModel) ==
  IF ttsModel[1] = "openai" THEN
    IF ttsModel[2] \in {"tts-1", "tts-1-hd"}
    THEN [provider |-> "openai", model |-> ttsModel[2]]
    ELSE [provider |-> "openai", model |-> "gpt-4o-mini-tts"]
  ELSE [provider |-> "openai", model |-> "gpt-4o-mini-tts"]

\* Map STT model to provider; adapter: wrapped in stt.StreamAdapter.
SttProvider(sttModel, isTelephonyCall) ==
  IF sttModel[1] = "openai" THEN
    IF sttModel[2] = "gpt-4o-transcribe"
    THEN [provider |-> "openai", model |-> "gpt-4o-transcribe", adapter |-> isTelephonyCall]
    ELSE [provider |-> "openai", model |-> sttModel[2], adapter |-> TRUE]
  ELSE [provider |-> "openai", model |-> "gpt-4o-transcribe", adapter |-> FALSE]

\* entry from the provider mapping to session.start.
EntryProviders ==
  /\ sess # <<>>
  /\ sess.pc = "providers"
  /\ sess' = [sess EXCEPT
       !.pc = "started",
       !.tts = TtsProvider(sess.config.ttsModel),
       !.stt = SttProvider(sess.config.sttModel, sess.isTelephonyCall),
       !.noiseCancellation =
          IF sess.isTelephonyCall THEN "TelephonyBackgroundVoiceCancellation"
          ELSE "BackgroundVoiceCancellation"]
  /\ SessFrame

SpecEntry == InitEntry /\ [][EntryConfig \/ EntryProviders]_vars

\* C21: the agent selects telephony noise cancellation only for sessions
\* that are outbound calls or hold a SIP participant; a web session made by
\* /api/token or a share link, not outbound and with no SIP participant,
\* gets the non-telephony noise cancellation and the streaming STT without
\* adapter.
C21_TelephonyOnlyForCalls ==
  (sess # <<>> /\ sess.pc = "started") =>
    /\ sess.noiseCancellation = "TelephonyBackgroundVoiceCancellation"
         => (sess.isOutboundCall \/ sess.hasSipParticipant)
    /\ (sess.kind \in {"token", "share"} /\ ~sess.hasSipParticipant /\ ~sess.isOutboundCall)
         => /\ sess.noiseCancellation = "BackgroundVoiceCancellation"
            /\ sess.config.sttModel = <<"openai", "gpt-4o-transcribe">> => ~sess.stt.adapter

\* C22: for every sttModel and ttsModel the schema accepts, the session is
\* assembled with the provider named by the model's prefix and with that
\* model.
C22_ProviderByPrefix ==
  (sess # <<>> /\ sess.pc = "started" /\ sess.hasConfig) =>
    /\ sess.stt.provider = sess.stored.sttModel[1]
    /\ sess.stt.model = sess.stored.sttModel[2]
    /\ sess.tts.provider = sess.stored.ttsModel[1]
    /\ sess.tts.model = sess.stored.ttsModel[2]

\* ------------------------------------ outbound calls through the SIP platform
\* placeOutboundCall up to the room: it reads the row and throws when there
\* is none; then roomClient.createRoom, awaited before the try block.  Every
\* throw ends in the route's catch: 500.
DialRoom(p, next) ==
  LET r == procs[p]
      t == getTelephonyConfigByAgentId(r.agent) IN
  /\ r.pc = "call_place"
  /\ IF t = 0 THEN
       /\ procs' = [procs EXCEPT ![p] = Respond(r, 500)]
       /\ UNCHANGED <<calls, rooms>>
     ELSE \E ok \in BOOLEAN :
       IF ok THEN
         /\ calls < MaxCalls
         /\ calls' = calls + 1
         /\ rooms' = rooms \cup {calls + 1}
         /\ procs' = [procs EXCEPT ![p] = [r EXCEPT !.pc = next, !.room = calls + 1]]
       ELSE
         /\ procs' = [procs EXCEPT ![p] = Respond([r EXCEPT !.failed = TRUE], 500)]
         /\ UNCHANGED <<calls, rooms>>
  /\ UNCHANGED <<agentVars, telVars, oauthVars, phoneVars, kbVars, sess, reqBody, resBody,
                 tmp>>

\* sip-service.ts placeOutboundCall: createRoom
PlaceRoom(p) == DialRoom(p, "dial_sip")

\* sip-service.ts placeOutboundCall: createSipParticipant inside try; its
\* failure goes to the catch block.
DialSip(p) ==
  LET r == procs[p] IN
  /\ r.pc = "dial_sip"
  /\ \E ok \in BOOLEAN :
       procs' = [procs EXCEPT ![p] =
         IF ok THEN Respond(r, 200) ELSE [r EXCEPT !.pc = "dial_cleanup", !.failed = TRUE]]
  /\ UNCHANGED <<agentVars, telVars, oauthVars, phoneVars, extVars>>

\* sip-service.ts placeOutboundCall, catch: await roomClient.deleteRoom, then
\* throw error; when deleteRoom throws, that error is the one thrown.  Either
\* way the route answers 500.
DialCleanup(p) ==
  LET r == procs[p] IN
  /\ r.pc = "dial_cleanup"
  /\ \E ok \in BOOLEAN :
       /\ rooms' = IF ok THEN rooms \ {r.room} ELSE rooms
       /\ procs' = [procs EXCEPT ![p] =
            Respond([r EXCEPT !.log = Append(@, <<"room", ok>>)], 500)]
  /\ UNCHANGED <<agentVars, telVars, oauthVars, phoneVars, kbVars, calls, sess, reqBody,
                 resBody, tmp>>

\* The simplified placeOutboundCall: createRoom
SimpleRoom(p) == DialRoom(p, "simple_sip")

\* The simplified placeOutboundCall: createSipParticipant, in no try block.
SimpleSip(p) ==
  LET r == procs[p] IN
  /\ r.pc = "simple_sip"
  /\ \E ok \in BOOLEAN :
       procs' = [procs EXCEPT ![p] =
         IF ok THEN Respond(r, 200) ELSE Respond([r EXCEPT !.failed = TRUE], 500)]
  /\ UNCHANGED <<agentVars, telVars, oauthVars, phoneVars, extVars>>

StepDial(p) ==
  \/ Call(p)
  \/ CallLoad(p)
  \/ PlaceRoom(p)
  \/ DialSip(p)
  \/ DialCleanup(p)
  \/ SimpleRoom(p)
  \/ SimpleSip(p)
  \/ Complete(p)

NextDial == \E p \in Procs : StepDial(p)

\* Outbound calls of one agent, placed by either placeOutboundCall.
SpecDial == InitCall /\ [][NextDial]_vars

\* C23: placeOutboundCall creates the room before it dials, and when
\* creating the SIP participant fails the room is deleted before the error
\* reaches the caller: a call request answered with an error has left no
\* room behind.
C23_FailedCallLeavesNoRoom ==
  \A p \in Procs :
    (procs[p].pc = "done" /\ procs[p].route = "Call" /\ procs[p].status = 500)
      => procs[p].room \notin rooms

\* ------------------------------------------- uploads: record and temp file
\* The upload request of process p has ended after its indexing had failed.
UploadFailedIndex(p) ==
  /\ procs[p].pc = "done"
  /\ procs[p].route = "KbUpload"
  /\ procs[p].failed

\* The handler of process p logged that the store did not delete the row.
UndoRefused(p) == \E i \in DOMAIN procs[p].log : procs[p].log[i] = <<"row", FALSE>>

C25_TempFileRemoved ==
  \A p \in Procs :
    (procs[p].pc = "done" /\ procs[p].route = "KbUpload" /\ procs[p].file # 0)
      => procs[p].file \notin tmp

\* ------------------------------------------------ telephony: activation
\* manage-telephony.ts activate <agent-id>: the command runs with the
\* server's store credentials and no user; it exits with 1 when the agent is
\* not found.  The status of the process record holds the exit code.
activateConfig(p) ==
  /\ procs[p].pc = "idle"
  /\ \E a \in ReqAgentIds :
       LET r == Request("AdminActivate", NoUser, a, Undef, NoCode) IN
       procs' = [procs EXCEPT ![p] =
         IF ~HasAgent(a) THEN Respond(r, 1) ELSE [r EXCEPT !.pc = "adm_load"]]
  /\ UNCHANGED <<oauthVars, phoneVars, extVars, agentVars, telVars>>

\* activateConfig: getTelephonyConfigByAgentId; exit 1 when there is no row,
\* exit 0 when the row is already active.
AdminLoad(p) ==
  LET r == procs[p]
      t == getTelephonyConfigByAgentId(r.agent) IN
  /\ r.pc = "adm_load"
  /\ procs' = [procs EXCEPT ![p] =
       IF t = 0 THEN Respond(r, 1)
       ELSE IF tel[t].is_active THEN Respond([r EXCEPT !.cfg = t], 0)
       ELSE [r EXCEPT !.cfg = t, !.pc = "adm_write"]]
  /\ UNCHANGED <<oauthVars, phoneVars, extVars, agentVars, telVars>>

\* activateConfig: db.updateTelephonyConfig(id, {isActive: true}); exit 1
\* when it yields null.
AdminWrite(p) ==
  LET r == procs[p] IN
  /\ r.pc = "adm_write"
  /\ \E error \in BOOLEAN :
       IF updateTelephonyConfig(r.cfg, error) THEN
         /\ tel' = [tel EXCEPT ![r.cfg].is_active = TRUE]
         /\ procs' = [procs EXCEPT ![p] = Respond(r, 0)]
       ELSE
         /\ procs' = [procs EXCEPT ![p] = Respond(r, 1)]
         /\ UNCHANGED tel
  /\ UNCHANGED <<oauthVars, phoneVars, extVars, agentVars, nextTel, sip, nextSip>>

\* The requests of the agent's owner and of other clients to the telephony
\* routes.
StepActive(p) ==
  \/ TelRequest(p, {"TelActivate", "TelDelete", "TelFix"})
  \/ TelSetup(p)
  \/ TelSetupCheck(p)
  \/ SipCreateInbound(p)
  \/ SipCreateOutbound(p)
  \/ SipCreateRule(p)
  \/ SipSetupDone(p)
  \/ TelSetupInsert(p)
  \/ TelLoad(p)
  \/ TelActivateWrite(p)
  \/ TeardownRule(p)
  \/ TeardownInbound(p)
  \/ TeardownOutbound(p)
  \/ TelDeleteRow(p)
  \/ FixDeleteRule(p)
  \/ FixDeleteInbound(p)
  \/ TelFixUpdate(p)
  \/ Complete(p)

\* The administrator's command.
StepAdmin(p) ==
  \/ activateConfig(p)
  \/ AdminLoad(p)
  \/ AdminWrite(p)
  \/ Complete(p)

\* One client of the API and one terminal of the administrator, interleaved
\* wherever a handler or the command awaits.
NextActive == StepActive("r1") \/ StepAdmin("r2")

\* Every operation on the telephony configuration of an agent: setup,
\* activation by the owner and by the administrator, fix-dispatch, deletion.
SpecActive == InitTel /\ [][NextActive]_vars

\* Process p performs the write of an activation in this step.
Activates(p, t) ==
  /\ procs[p].pc \in {"act_write", "adm_write"}
  /\ procs[p].cfg = t
  /\ procs'[p].pc = "done"

\* C26: a row is inserted with is_active false; as long as the row exists
\* its is_active changes only from false to true, and only in the write of
\* PATCH ../activate or of the administrator's activate command.
C26_ActiveOnlyRises ==
  [][/\ \A t \in DOMAIN tel' \ DOMAIN tel : ~tel'[t].is_active
     /\ \A t \in DOMAIN tel \cap DOMAIN tel' :
          tel'[t].is_active # tel[t].is_active
            => /\ ~tel[t].is_active
               /\ \E p \in Procs : Activates(p, t)]_vars

\* A fix-dispatch was answered 200, or the activate command has ended with
\* success, for an agent whose row is active.
C26_Witness ==
  \E p \in Procs, t \in DOMAIN tel :
    /\ tel[t].is_active
    /\ procs[p].pc = "done"
    /\ procs[p].agent = tel[t].agent
    /\ \/ procs[p].route = "TelFix" /\ procs[p].status = 200
       \/ procs[p].route = "AdminActivate" /\ procs[p].status = 0

\* ------------------------------------------------ telephony: one number
\* Two agents of two owners are stored; nothing is provisioned yet.  The
\* vendor account lists one number, which both owners can name.
InitNumber ==
  /\ agents = (1 :> createAgentConfig("u1", FALSE, NoCode))
                @@ (2 :> createAgentConfig("u2", FALSE, NoCode))
  /\ nextAgent = 3
  /\ nextCode = 1
  /\ issuedTo = [c \in Codes |-> 0]
  /\ revoked = {}
  /\ madePrivate = {}
  /\ NoRequest
  /\ NoTelephony
  /\ NoOAuth
  /\ NoPhone
  /\ NoExt

\* POST /api/agents/:id/telephony for either agent.
TelSetupAny(p) == TelSetupOf(p, DOMAIN agents)

StepNumber(p) ==
  \/ TelSetupAny(p)
  \/ TelSetupCheck(p)
  \/ SipCreateInbound(p)
  \/ SipCreateOutbound(p)
  \/ SipCreateRule(p)
  \/ SipSetupDone(p)
  \/ TelSetupInsert(p)
  \/ Complete(p)

NextNumber == \E p \in Procs : StepNumber(p)

\* Telephony setups of two owners for their agents.
SpecNumber == InitNumber /\ [][NextNumber]_vars

\* C27: no two rows that belong to different agents hold the same phone
\* number.
C27_NumberOfOneAgent ==
  \A t1 \in DOMAIN tel, t2 \in DOMAIN tel :
    tel[t1].agent # tel[t2].agent => tel[t1].phone_number # tel[t2].phone_number

\* ------------------------------------------------------ deletions and 204
\* Process p answers its request with 204 in this step.
Answers204(p) ==
  /\ procs[p].pc # "done"
  /\ procs'[p].pc = "done"
  /\ procs'[p].status = 204

\* C28: when DELETE /api/agents/:id or DELETE /api/agents/:id/telephony is
\* answered 204, the row the handler was to delete is no longer in the store.
C28_NoContentMeansGone ==
  [][\A p \in Procs :
       Answers204(p) =>
         /\ procs[p].route = "DeleteAgent" => procs[p].agent \notin DOMAIN agents'
         /\ procs[p].route = "TelDelete" => procs[p].cfg \notin DOMAIN tel']_vars
====
